---- MODULE Spec2Model ----
(***************************************************************************)
(* A model of the ETL orchestrator of data-pipeline-etl: the scheduler of  *)
(* configuration files (src/pipeline.py), the job loop of Pipeline.run and *)
(* the date-range resolution of the downloaders                            *)
(* (src/downloaders/downloader.py).                                        *)
(*                                                                         *)
(* File paths, tags and identities are sequences of one-character strings, *)
(* so that upper(), startswith(), basename() and the regular expressions   *)
(* of remove_priority_tags are computed character by character.            *)
(***************************************************************************)
EXTENDS Integers, Sequences, FiniteSets, TLC

\* ------------------------------------------------------------------------
\* Bounds of the model
\* ------------------------------------------------------------------------

\* Largest number of *.yaml files in the configuration directory of the runs
\* that are followed.
MaxFiles == 2

\* Largest number of *.yaml files in a directory that is listed and scheduled.
MaxListed == 3

\* Number of consecutive runs of Pipeline.run that are followed.
MaxRuns == 2

\* Number of days behind FirstDay on which generate_range_dates may be called.
ClockDays == 75

\* Largest trailing day count (fecha_dias) of a job.
MaxDias == 2

\* ------------------------------------------------------------------------
\* Character strings
\* ------------------------------------------------------------------------

\* str.upper() on one character of the alphabet the model uses.
UpperChar(c) ==
    CASE c = "p" -> "P"
      [] c = "d" -> "D"
      [] c = "h" -> "H"
      [] c = "l" -> "L"
      [] c = "a" -> "A"
      [] c = "b" -> "B"
      [] c = "e" -> "E"
      [] c = "m" -> "M"
      [] c = "o" -> "O"
      [] c = "r" -> "R"
      [] c = "s" -> "S"
      [] c = "t" -> "T"
      [] c = "y" -> "Y"
      [] OTHER -> c

\* str.upper()
Upper(s) == [i \in 1..Len(s) |-> UpperChar(s[i])]

\* str.startswith(prefix)
StartsWith(s, prefix) ==
    /\ Len(s) >= Len(prefix)
    /\ SubSeq(s, 1, Len(prefix)) = prefix

\* the Python test `sub in s` on strings
Contains(s, sub) ==
    \E i \in 1..(Len(s) - Len(sub) + 1) : SubSeq(s, i, i + Len(sub) - 1) = sub

\* Index of the last "/" of a path, 0 when it has none.
LastSlash(p) ==
    LET S == {i \in 1..Len(p) : p[i] = "/"}
    IN  IF S = {} THEN 0 ELSE CHOOSE i \in S : \A j \in S : j <= i

\* os.path.basename
basename(p) == SubSeq(p, LastSlash(p) + 1, Len(p))

\* The tags as character strings.
TagPP == <<"[", "P", "P", "]">>
TagP  == <<"[", "P", "]">>
TagH  == <<"[", "H", "]">>
TagL  == <<"[", "L", "]">>
TagD  == <<"[", "D", "]">>

\* A letter that the pattern letter P matches under re.IGNORECASE.
IsP(c) == c \in {"P", "p"}

\* ------------------------------------------------------------------------
\* The scheduler: Pipeline.load_config_files
\* ------------------------------------------------------------------------

\* get_priority: the rank of a configuration file from the prefix of its
\* upper-cased base name.
get_priority(filename) ==
    LET base == Upper(basename(filename))
    IN  IF StartsWith(base, TagPP) THEN 0
        ELSE IF StartsWith(base, TagP) THEN 1
        ELSE IF StartsWith(base, TagH) THEN 2
        ELSE IF StartsWith(base, TagL) THEN 4
        ELSE 3

\* IsDisabled without upper(): only the capital [D] disables.
IsDisabledCaseSensitive(f) == StartsWith(basename(f), TagD)

\* The test of the comprehension that drops the disabled files.
IsDisabled(f) == StartsWith(Upper(basename(f)), TagD)

IsActive(f) == ~IsDisabled(f)

\* InsertByPriority with x put in front of the elements of its own key: a
\* sort that is not stable.
RECURSIVE InsertBeforeEqual(_, _)
InsertBeforeEqual(x, s) ==
    IF s = <<>> THEN <<x>>
    ELSE IF get_priority(Head(s)) < get_priority(x)
         THEN <<Head(s)>> \o InsertBeforeEqual(x, Tail(s))
         ELSE <<x>> \o s

\* One insertion of a stable sort: x goes behind every element whose key is
\* not larger than its own.
RECURSIVE InsertByPriority(_, _)
InsertByPriority(x, s) ==
    IF s = <<>> THEN <<x>>
    ELSE IF get_priority(Head(s)) <= get_priority(x)
         THEN <<Head(s)>> \o InsertByPriority(x, Tail(s))
         ELSE <<x>> \o s

\* sorted(files, key=get_priority): Python's sort is stable.
RECURSIVE SortByPriorityFrom(_, _)
SortByPriorityFrom(done, rest) ==
    IF rest = <<>> THEN done
    ELSE SortByPriorityFrom(InsertByPriority(Head(rest), done), Tail(rest))

SortByPriority(files) == SortByPriorityFrom(<<>>, files)

\* IsPriorityFile with < for <=: only [PP] counts.
IsPermanentPriorityFile(f) == get_priority(f) < 1

\* The test of the comprehension that keeps the priority files.
IsPriorityFile(f) == get_priority(f) <= 1

\* load_config_files applied to the listing that glob returned.
load_config_files(globbed) ==
    LET active_files   == SelectSeq(globbed, IsActive)
        sorted_files   == SortByPriority(active_files)
        priority_files == SelectSeq(sorted_files, IsPriorityFile)
    IN  IF priority_files # <<>> THEN priority_files ELSE sorted_files

\* ------------------------------------------------------------------------
\* The scheduler: Pipeline.remove_priority_tags
\* ------------------------------------------------------------------------

\* re.sub(r'\[P]', '', s, flags=re.IGNORECASE): every occurrence of [P] or
\* [p], scanned from the left, is deleted.
RECURSIVE SubTagP(_)
SubTagP(s) ==
    IF s = <<>> THEN <<>>
    ELSE IF Len(s) >= 3 /\ s[1] = "[" /\ IsP(s[2]) /\ s[3] = "]"
         THEN SubTagP(SubSeq(s, 4, Len(s)))
         ELSE <<s[1]>> \o SubTagP(Tail(s))

\* Index of the first "]" of s, 0 when it has none.
FirstClose(s) ==
    LET S == {i \in 1..Len(s) : s[i] = "]"}
    IN  IF S = {} THEN 0 ELSE CHOOSE i \in S : \A j \in S : i <= j

\* Index of the last letter P or p among s[lo..hi], 0 when there is none.
LastP(s, lo, hi) ==
    LET S == {i \in lo..hi : IsP(s[i])}
    IN  IF S = {} THEN 0 ELSE CHOOSE i \in S : \A j \in S : j <= i

\* re.sub(r'\[([^]]*)P([^]]*)]', r'[\1\2]', s, flags=re.IGNORECASE): a match
\* starts at a "[" and ends at the first "]" behind it; the greedy first
\* group makes the deleted letter the last P or p in between. The scan goes
\* on behind the match.
RECURSIVE SubInnerP(_)
SubInnerP(s) ==
    IF s = <<>> THEN <<>>
    ELSE LET j == FirstClose(s)
             k == IF s[1] = "[" /\ j > 0 THEN LastP(s, 2, j - 1) ELSE 0
         IN  IF k > 0
             THEN SubSeq(s, 1, k - 1) \o SubSeq(s, k + 1, j)
                      \o SubInnerP(SubSeq(s, j + 1, Len(s)))
             ELSE <<s[1]>> \o SubInnerP(Tail(s))

\* str.replace('[]', ''): the occurrences found by one scan from the left.
RECURSIVE RemoveEmptyBrackets(_)
RemoveEmptyBrackets(s) ==
    IF s = <<>> THEN <<>>
    ELSE IF Len(s) >= 2 /\ s[1] = "[" /\ s[2] = "]"
         THEN RemoveEmptyBrackets(SubSeq(s, 3, Len(s)))
         ELSE <<s[1]>> \o RemoveEmptyBrackets(Tail(s))

\* The test that lets remove_priority_tags skip a file.
HasPermanentTag(config_file) == Contains(Upper(basename(config_file)), TagPP)

\* new_name of remove_priority_tags for a file that is not skipped.
StripTags(config_file) ==
    RemoveEmptyBrackets(SubInnerP(SubTagP(config_file)))

\* ------------------------------------------------------------------------
\* The configuration directory and the job descriptors
\* ------------------------------------------------------------------------

\* reports_dir of main(): 'reports'.
ConfigDir == <<"r", "e", "p", "o", "r", "t", "s">>

\* The suffix that glob's pattern '*.yaml' asks for.
YamlSuffix == <<".", "y", "a", "m", "l">>

\* The path glob returns for the file of the given stem.
PathOf(stem) == ConfigDir \o <<"/">> \o stem \o YamlSuffix

\* The stems of the files a configuration directory of the model may hold
\* when it is first seen: every tag, [P] and [D] in both letter cases, files
\* carrying two tags, and bracketed text that is no tag.
Stems ==
    << <<"[", "P", "P", "]", "a">>,
       <<"[", "P", "]", "a">>,
       <<"[", "L", "]", "a">>,
       <<"[", "H", "]", "a">>,
       <<"a">>,
       <<"[", "p", "]", "b">>,
       <<"[", "d", "]", "b">>,
       <<"[", "t", "m", "p", "]", "b">>,
       <<"[", "P", "]", "[", "H", "]", "a">>,
       <<"[", "P", "]", "a", "[", "P", "P", "]">>,
       <<"[", "D", "]", "a">> >>

\* A job descriptor as yaml.safe_load returns it: a mapping. keys is the set
\* of the identity keys the mapping has.
Service(on, ks, s, ss) ==
    [enabled |-> on, keys |-> ks, servicio |-> s, sub_servicio |-> ss]

BothKeys == {"servicio", "sub_servicio"}

\* The documents of the configuration files: two enabled jobs; a disabled
\* job before an enabled one; a job without sub_servicio before an enabled
\* one; a single job.
Documents ==
    << << Service(TRUE, BothKeys, <<"a">>, <<"x">>),
          Service(TRUE, BothKeys, <<"b">>, <<"x">>) >>,
       << Service(FALSE, BothKeys, <<"c">>, <<"x">>),
          Service(TRUE, BothKeys, <<"d">>, <<"x">>) >>,
       << Service(TRUE, {"servicio"}, <<"e">>, <<>>),
          Service(TRUE, BothKeys, <<"f">>, <<"x">>) >>,
       << Service(TRUE, BothKeys, <<"g">>, <<"x">>) >> >>

\* The document of the file that was created as the id-th stem.
DocumentOf(id) == Documents[((id - 1) % Len(Documents)) + 1]

\* The test `service.get(key) is None` for a key of the mapping.
Missing(service, key) == key \notin service.keys

\* The f-string f"{service['servicio']} - {service['sub_servicio']}".
Identity(service) ==
    service.servicio \o <<" ", "-", " ">> \o service.sub_servicio

\* The name of the traceback file of a job.
LogFileName(service) ==
    <<"traceback_">> \o service.servicio \o <<"_">> \o service.sub_servicio
        \o <<".txt">>

\* ------------------------------------------------------------------------
\* The file system
\* ------------------------------------------------------------------------

\* A directory is a set of files [path, id]: id tells the content, and is
\* the index in Stems of the name the file was created under.
PathsOf(dir) == {f.path : f \in dir}

FileAt(dir, p) == CHOOSE f \in dir : f.path = p

\* The orders in which glob may list the directory (it promises none).
Listings(dir) ==
    LET n == Cardinality(dir)
    IN  {l \in [1..n -> PathsOf(dir)] : \A i, j \in 1..n : l[i] = l[j] => i = j}

\* os.rename(src, dst) on the directory: the new directory, and whether the
\* call raised. An existing dst is replaced on POSIX, and is an error
\* (FileExistsError) on Windows.
os_rename(dir, src, dst, os_name) ==
    IF src \notin PathsOf(dir)
    THEN [dir |-> dir, raised |-> TRUE]
    ELSE IF dst \in PathsOf(dir) /\ os_name = "nt"
    THEN [dir |-> dir, raised |-> TRUE]
    ELSE [dir |-> {f \in dir : f.path \notin {src, dst}}
                     \cup {[path |-> dst, id |-> FileAt(dir, src).id]},
          raised |-> FALSE]

\* The loop of remove_priority_tags over config_files[i..], from the
\* directory st.dir on; st.renamed lists the renames done, st.raised tells
\* that os.rename raised, which ends the loop.
RECURSIVE RemoveFrom(_, _, _, _)
RemoveFrom(config_files, i, st, os_name) ==
    IF i > Len(config_files) \/ st.raised THEN st
    ELSE LET config_file == config_files[i]
             new_name    == StripTags(config_file)
         IN  IF HasPermanentTag(config_file) \/ new_name = config_file
             THEN RemoveFrom(config_files, i + 1, st, os_name)
             ELSE LET r == os_rename(st.dir, config_file, new_name, os_name)
                  IN  RemoveFrom(config_files, i + 1,
                          [dir     |-> r.dir,
                           renamed |-> IF r.raised THEN st.renamed
                                       ELSE Append(st.renamed,
                                                   <<config_file, new_name>>),
                           raised  |-> r.raised],
                          os_name)

remove_priority_tags(config_files, dir, os_name) ==
    RemoveFrom(config_files, 1,
               [dir |-> dir, renamed |-> <<>>, raised |-> FALSE], os_name)

\* ------------------------------------------------------------------------
\* One job: Pipeline._process_report
\* ------------------------------------------------------------------------

\* get_downloader raises ValueError for a descriptor without servicio or
\* without sub_servicio.
get_downloader_raises(service) ==
    Missing(service, "servicio") \/ Missing(service, "sub_servicio")

\* _process_report raises when get_downloader does, or when the download,
\* the read, the upload or the SQL execution fails (io_fails).
process_report_raises(service, io_fails) ==
    get_downloader_raises(service) \/ io_fails

\* The subscripts service['servicio'] and service['sub_servicio'] of the
\* except clause raise KeyError for a missing key.
handler_raises(service) ==
    Missing(service, "servicio") \/ Missing(service, "sub_servicio")

\* ------------------------------------------------------------------------
\* Calendar dates and Downloader.generate_range_dates
\* ------------------------------------------------------------------------

IsLeapYear(y) == (y % 4 = 0 /\ y % 100 # 0) \/ y % 400 = 0

DaysInMonth(y, m) ==
    IF m = 2 THEN (IF IsLeapYear(y) THEN 29 ELSE 28)
    ELSE IF m \in {4, 6, 9, 11} THEN 30 ELSE 31

\* A pendulum value: a Date, or the DateTime of the midnight that starts the
\* day (what today() returns).
MkDate(y, m, d)     == [type |-> "Date", y |-> y, m |-> m, d |-> d]
MkDateTime(y, m, d) == [type |-> "DateTime", y |-> y, m |-> m, d |-> d]

\* The order of two values by their calendar day.
DayLeq(a, b) ==
    \/ a.y < b.y
    \/ a.y = b.y /\ a.m < b.m
    \/ a.y = b.y /\ a.m = b.m /\ a.d <= b.d

\* The number of days before 1 January of year y, counted from 1 January of
\* year 1, and the number of days of year y before the first of month m.
DaysBeforeYear(y) ==
    LET p == y - 1
    IN  365 * p + (p \div 4) - (p \div 100) + (p \div 400)

DaysBeforeMonth(y, m) ==
    <<0, 31, 59, 90, 120, 151, 181, 212, 243, 273, 304, 334>>[m]
        + (IF m > 2 /\ IsLeapYear(y) THEN 1 ELSE 0)

\* The proleptic Gregorian ordinal of a day, and the day of an ordinal.
ToOrdinal(t) == DaysBeforeYear(t.y) + DaysBeforeMonth(t.y, t.m) + t.d

FromOrdinal(n, type) ==
    LET y == CHOOSE c \in (n \div 366)..((n \div 365) + 1) :
                 DaysBeforeYear(c) < n /\ n <= DaysBeforeYear(c + 1)
        r == n - DaysBeforeYear(y)
        m == CHOOSE c \in 1..12 :
                 /\ DaysBeforeMonth(y, c) < r
                 /\ r <= DaysBeforeMonth(y, c) + DaysInMonth(y, c)
    IN  [type |-> type, y |-> y, m |-> m, d |-> r - DaysBeforeMonth(y, m)]

\* t.subtract(days=n); a negative n moves forward.
subtract_days(t, n) == FromOrdinal(ToOrdinal(t) - n, t.type)

\* The value one day later.
NextDay(t) == subtract_days(t, 0 - 1)

\* subtract_month moving a month forward instead.
add_month(t) ==
    LET y == IF t.m = 12 THEN t.y + 1 ELSE t.y
        m == IF t.m = 12 THEN 1 ELSE t.m + 1
        d == IF t.d > DaysInMonth(y, m) THEN DaysInMonth(y, m) ELSE t.d
    IN  [t EXCEPT !.y = y, !.m = m, !.d = d]

\* t.subtract(months=1): the same day of the month before, clamped to the
\* length of that month.
subtract_month(t) ==
    LET y == IF t.m = 1 THEN t.y - 1 ELSE t.y
        m == IF t.m = 1 THEN 12 ELSE t.m - 1
        d == IF t.d > DaysInMonth(y, m) THEN DaysInMonth(y, m) ELSE t.d
    IN  [t EXCEPT !.y = y, !.m = m, !.d = d]

\* t.start_of('month')
start_of_month(t) == [t EXCEPT !.d = 1]

\* A field of the job configuration: not given (None), an integer, or a
\* text. The text of a date is <<year, month, day>>.
NoField      == [given |-> FALSE, int |-> FALSE, value |-> 0]
IntField(n)  == [given |-> TRUE, int |-> TRUE, value |-> n]
TextField(t) == [given |-> TRUE, int |-> FALSE, value |-> t]

\* ensure_date on a text: pendulum's parse raises ValueError for a day that
\* the calendar does not have.
ensure_date(text) ==
    IF /\ text[2] \in 1..12
       /\ text[3] \in 1..DaysInMonth(text[1], text[2])
    THEN [raised |-> FALSE, value |-> MkDate(text[1], text[2], text[3])]
    ELSE [raised |-> TRUE]

Range(a, b) == [raised |-> FALSE, start |-> a, end |-> b]

ValueError == [raised |-> TRUE]

\* The truth value Python gives a field: None and 0 are false.
Truthy(field) == field.given /\ (field.int => field.value # 0)

\* generate_range_dates. t1, t2 and t3 are the values of the first, second
\* and third call of today(self.tz) within the call, in program order.
\* The f_ parameters are the fields self.fecha_ini, self.fecha_fin,
\* self.fecha_dias and self.fecha_threshold; the threshold is an integer, or
\* the text "5" as an example of a value that is no integer.
generate_range_dates(f_ini, f_fin, f_dias, f_threshold, t1, t2, t3) ==
    IF Truthy(f_ini) /\ Truthy(f_fin)
    THEN LET a == ensure_date(f_ini.value)
             b == ensure_date(f_fin.value)
         IN  IF a.raised \/ b.raised THEN ValueError
             ELSE Range(a.value, b.value)
    ELSE IF Truthy(f_ini)
    THEN LET a == ensure_date(f_ini.value)
         IN  IF a.raised THEN ValueError ELSE Range(a.value, t1)
    ELSE IF Truthy(f_dias)
    THEN Range(subtract_days(t1, f_dias.value), t2)
    ELSE IF Truthy(f_threshold)
    THEN IF f_threshold.int
         THEN IF t1.d <= f_threshold.value
              THEN Range(start_of_month(subtract_month(t2)), t3)
              ELSE Range(start_of_month(t2), t3)
         ELSE ValueError
    ELSE Range(subtract_days(t1, 1), t2)

\* ------------------------------------------------------------------------
\* File names: Downloader.generate_fullpath_name
\* ------------------------------------------------------------------------

DigitChars == <<"0", "1", "2", "3", "4", "5", "6", "7", "8", "9">>

\* The decimal digits of n, without padding (pattern y) and padded to two
\* places (patterns MM, dd, HH, mm, ss).
RECURSIVE Digits(_)
Digits(n) ==
    IF n < 10 THEN <<DigitChars[n + 1]>>
    ELSE Digits(n \div 10) \o <<DigitChars[(n % 10) + 1]>>

Pad2(n) == <<DigitChars[(n \div 10) + 1], DigitChars[(n % 10) + 1]>>

\* An instant of now(self.tz).
MkInstant(y, mo, d, h, mi, sec) ==
    [y |-> y, mo |-> mo, d |-> d, h |-> h, mi |-> mi, sec |-> sec]

\* babel's format_datetime for the two patterns the code uses; the locale
\* es_PE changes none of these numeric fields.
format_datetime(t, date_format) ==
    LET minutes == Digits(t.y) \o Pad2(t.mo) \o Pad2(t.d) \o <<"_">>
                       \o Pad2(t.h) \o Pad2(t.mi)
    IN  IF date_format = "yMMdd_HHmmss" THEN minutes \o Pad2(t.sec)
        ELSE minutes

\* generate_folder_name: the path, as the sequence of its parts.
generate_folder_name(self) ==
    <<self.root_download_dir, self.service, self.sub_service>>

\* The literal 'download'.
DownloadLiteral == <<"d", "o", "w", "n", "l", "o", "a", "d">>

\* generate_fullpath_name; t is the value of now(self.tz).
generate_fullpath_name(self, extension, original_filename, t) ==
    LET name1 == IF self.add_downloader_name
                 THEN self.downloader_name \o <<"_">> ELSE <<>>
        name2 == IF self.add_original_name
                 THEN name1 \o original_filename \o <<"_">> ELSE name1
        fmt1  == IF self.add_timestamp THEN "yMMdd_HHmm" ELSE ""
        date_format == IF self.add_full_timestamp THEN "yMMdd_HHmmss" ELSE fmt1
        name3 == IF date_format # ""
                 THEN name2 \o format_datetime(t, date_format) ELSE name2
        name4 == IF name3 = <<>> THEN DownloadLiteral ELSE name3
        file_name == name4 \o <<".">> \o extension
    IN  generate_folder_name(self) \o <<file_name>>

\* ------------------------------------------------------------------------
\* The cleaning steps: FileProcessor
\* ------------------------------------------------------------------------

\* The characters str.strip and str.split take for white space.
IsSpace(c) == c \in {" ", "\n", "\r", "\t"}

RECURSIVE LStrip(_)
LStrip(s) ==
    IF s = <<>> THEN <<>>
    ELSE IF IsSpace(Head(s)) THEN LStrip(Tail(s)) ELSE s

RECURSIVE RStrip(_)
RStrip(s) ==
    IF s = <<>> THEN <<>>
    ELSE IF IsSpace(s[Len(s)]) THEN RStrip(SubSeq(s, 1, Len(s) - 1)) ELSE s

\* str.strip()
str_strip(s) == RStrip(LStrip(s))

IsNoLineBreak(c) == c \notin {"\r", "\n"}

\* Every run of white space becomes one blank.
RECURSIVE Squeeze(_)
Squeeze(s) ==
    IF s = <<>> THEN <<>>
    ELSE IF IsSpace(s[1])
    THEN IF Len(s) > 1 /\ IsSpace(s[2]) THEN Squeeze(Tail(s))
         ELSE <<" ">> \o Squeeze(Tail(s))
    ELSE <<s[1]>> \o Squeeze(Tail(s))

\* trim_column_names, line 241, for one header:
\* ' '.join(col.strip().replace('\r', '').replace('\n', '').split())
TrimName(col) ==
    Squeeze(str_strip(SelectSeq(str_strip(col), IsNoLineBreak)))

\* The characters of the class of line 278, but for its two typographic
\* quotation marks, which no header of the model has.
IsNoSpecialChar(c) ==
    c \notin {"¿", "?", "#", ",", "@", "&", "\"", "/", "(", ")"}

\* normalize('NFD', txt).encode('ascii', 'ignore').decode(), line 340, for
\* one character: the accent of a letter is dropped, and so is any other
\* character outside ASCII.
AsciiOf(c) ==
    CASE c = "é" -> "e"
      [] c = "¿" -> ""
      [] OTHER -> c

IsKept(c) == c # ""

\* The class [0-9a-zA-Z&_] of line 341, over the characters of the model.
IsWordChar(c) ==
    c \in {"a", "b", "d", "e", "A", "B", "D", "E", "1", "2", "&", "_"}

BlankIfNoWordChar(c) == IF IsWordChar(c) THEN c ELSE " "

BlankToUnderscore(c) == IF c = " " THEN "_" ELSE c

MapChars(s, Op(_)) == [i \in 1..Len(s) |-> Op(s[i])]

\* _normalize_name, lines 339-344.
normalize_name(txt) ==
    LET t1 == str_strip(txt)
        t2 == SelectSeq(MapChars(t1, AsciiOf), IsKept)
        t3 == Squeeze(MapChars(t2, BlankIfNoWordChar))
        t4 == Upper(str_strip(t3))
    IN  MapChars(t4, BlankToUnderscore)

\* col[:length], line 271.
TruncateName(col, length) ==
    SubSeq(col, 1, IF length < Len(col) THEN length ELSE Len(col))

\* A buffer: the headers of its columns, and its rows of cells.
Frame(columns, rows) == [columns |-> columns, rows |-> rows]

MapColumns(buf, Op(_)) ==
    [buf EXCEPT !.columns = [i \in 1..Len(buf.columns) |-> Op(buf.columns[i])]]

\* A cleaning step of the configuration: a name, and the parameters of a
\* step given as a mapping, as pairs <<key, value>>.
Step(name, params) == [name |-> name, params |-> params]

NoParams == <<>>

\* What getattr(self, method_name, None) finds, line 95: one of the
\* cleaning methods that work on the headers, another method of the
\* processor, the buffer self.df, an attribute with a true value
\* (file_path, encoding), one with a false value (skip_rows and sheet_name
\* are 0 by default), or nothing.
HeaderOperations ==
    {"trim_column_names", "truncate_column_names",
     "remove_specialchars_from_column_names", "normalize_column_names"}

OtherMethods == {"_read", "upload_to_db"}

TrueAttributes == {"file_path", "encoding"}

FalseAttributes == {"skip_rows", "sheet_name"}

\* What a step did: the buffer after it, the method that was called
\* ("none" when none was), and the exception it raised ("none" when none).
Done(buf, called)   == [df |-> buf, called |-> called, error |-> "none"]
Failed(buf, e)      == [df |-> buf, called |-> "none", error |-> e]

\* The call of a method that takes no parameter, lines 97-100: parameters
\* given for it are an unexpected keyword argument.
CallPlain(buf, name, params, after) ==
    IF params # NoParams THEN Failed(buf, "TypeError") ELSE Done(after, name)

\* The value of the parameter key of a step.
Param(params, key) ==
    params[CHOOSE i \in 1..Len(params) : params[i][1] = key][2]

\* method(**params) binds the parameters by their names: the call is a
\* TypeError unless the names are exactly those of the method.
Binds(params, keys) ==
    /\ Len(params) = Cardinality(keys)
    /\ {params[i][1] : i \in 1..Len(params)} = keys

\* A columns parameter: one name as a text, or a list of names.
TextOf(name)  == [text |-> TRUE, names |-> <<name>>]
ListOf(names) == [text |-> FALSE, names |-> names]

\* `if isinstance(columns, str): columns = [columns]`
as_list(columns) == columns.names

\* `column in self.df.columns`
HasColumn(buf, column) == \E i \in 1..Len(buf.columns) : buf.columns[i] = column

PresentOfUntested(buf, columns) == columns

\* [col for col in columns if col in self.df.columns]
PresentOf(buf, columns) ==
    LET InBuffer(col) == HasColumn(buf, col)
    IN  SelectSeq(columns, InBuffer)

\* The position of a column of the buffer.
PositionOf(buf, column) ==
    CHOOSE i \in 1..Len(buf.columns) : buf.columns[i] = column

\* The positions 1..n that satisfy keep, in increasing order.
RECURSIVE PositionsFrom(_, _, _)
PositionsFrom(i, n, keep) ==
    IF i > n THEN <<>>
    ELSE (IF i \in keep THEN <<i>> ELSE <<>>) \o PositionsFrom(i + 1, n, keep)

\* The buffer of the columns at the positions pos, in that order.
TakeColumns(buf, pos) ==
    Frame([k \in 1..Len(pos) |-> buf.columns[pos[k]]],
          [r \in 1..Len(buf.rows) |->
              [k \in 1..Len(pos) |-> buf.rows[r][pos[k]]]])

\* The buffer looks up the labels: one that it does not have is a KeyError.
AllFound(buf, labels) ==
    \A k \in 1..Len(labels) : HasColumn(buf, labels[k])

\* ignore_columns, lines 286-293: drop(columns=...) of the names present.
ignore_columns(buf, columns) ==
    LET named == PresentOf(buf, as_list(columns))
        keep == {i \in 1..Len(buf.columns) :
                    \A k \in 1..Len(named) : named[k] # buf.columns[i]}
    IN  IF ~AllFound(buf, named) THEN Failed(buf, "KeyError")
        ELSE Done(TakeColumns(buf, PositionsFrom(1, Len(buf.columns), keep)),
                  "ignore_columns")

\* filter_columns, lines 301-308: self.df[columns] of the names present, in
\* the order of the parameter.
filter_columns(buf, columns) ==
    LET named == PresentOf(buf, as_list(columns))
    IN  IF ~AllFound(buf, named) THEN Failed(buf, "KeyError")
        ELSE Done(TakeColumns(buf, [k \in 1..Len(named) |->
                                      PositionOf(buf, named[k])]),
                  "filter_columns")

\* The null marker of a cell (NaN).
NA == <<"NaN">>

\* The loop `for column in columns: if column in self.df.columns:` of
\* replace_values, trim_column_values and only_numbers_columns: the cells
\* of the named columns that are present are replaced by Op of them.
MapCells(buf, name, columns, Op(_)) ==
    LET named == PresentOf(buf, as_list(columns))
        hit == {i \in 1..Len(buf.columns) :
                   \E k \in 1..Len(named) : named[k] = buf.columns[i]}
    IN  IF ~AllFound(buf, named) THEN Failed(buf, "KeyError")
        ELSE Done([buf EXCEPT !.rows =
                      [r \in 1..Len(buf.rows) |->
                          [i \in 1..Len(buf.columns) |->
                              IF i \in hit THEN Op(buf.rows[r][i])
                              ELSE buf.rows[r][i]]]],
                  name)

\* Series.str.strip() on a cell, line 255.
StripCell(cell) == IF cell = NA THEN NA ELSE str_strip(cell)

IsDigit(c) == c \in {"0", "1", "2", "3", "4", "5", "6", "7", "8", "9"}

\* The digits at the head of s.
RECURSIVE DigitRun(_)
DigitRun(s) ==
    IF s = <<>> \/ ~IsDigit(Head(s)) THEN <<>>
    ELSE <<Head(s)>> \o DigitRun(Tail(s))

\* Series.str.extract(r'(\d+)') on a cell, line 322: the first run of
\* digits, NaN for a cell without a digit.
RECURSIVE ExtractDigits(_)
ExtractDigits(cell) ==
    IF cell = NA \/ cell = <<>> THEN NA
    ELSE IF IsDigit(Head(cell)) THEN DigitRun(cell)
    ELSE ExtractDigits(Tail(cell))

\* Series.replace(old_values, new_values) on a cell, line 233: the cell that
\* equals an old value becomes the new value at the same place of its list.
ReplaceCell(cell, old_values, new_values) ==
    LET at == {k \in 1..Len(old_values) : old_values[k] = cell}
    IN  IF at = {} THEN cell
        ELSE new_values[CHOOSE k \in at : \A m \in at : k <= m]

\* remove_duplicate_rows, line 351: drop_duplicates keeps the first of the
\* rows that are equal.
remove_duplicate_rows(buf) ==
    LET first == {r \in 1..Len(buf.rows) :
                     \A q \in 1..(r - 1) : buf.rows[q] # buf.rows[r]}
        pos == PositionsFrom(1, Len(buf.rows), first)
    IN  [buf EXCEPT !.rows = [k \in 1..Len(pos) |-> buf.rows[pos[k]]]]

\* execute_cleaning_step, lines 95-102.
execute_cleaning_step(buf, step) ==
    LET name == step.name
        params == step.params
    IN  CASE name = "trim_column_names" ->
                 CallPlain(buf, name, params, MapColumns(buf, TrimName))
          [] name = "remove_specialchars_from_column_names" ->
                 CallPlain(buf, name, params,
                     [buf EXCEPT !.columns =
                         [i \in 1..Len(buf.columns) |->
                             SelectSeq(buf.columns[i], IsNoSpecialChar)]])
          [] name = "normalize_column_names" ->
                 CallPlain(buf, name, params, MapColumns(buf, normalize_name))
          [] name = "truncate_column_names" ->
                 IF Len(params) = 1 /\ params[1][1] = "length"
                 THEN Done([buf EXCEPT !.columns =
                               [i \in 1..Len(buf.columns) |->
                                   TruncateName(buf.columns[i], params[1][2])]],
                           name)
                 ELSE Failed(buf, "TypeError")
          [] name \in {"ignore_columns", "filter_columns",
                       "trim_column_values", "only_numbers_columns"} ->
                 IF ~Binds(params, {"columns"}) THEN Failed(buf, "TypeError")
                 ELSE LET columns == Param(params, "columns")
                      IN  CASE name = "ignore_columns" ->
                                   ignore_columns(buf, columns)
                            [] name = "filter_columns" ->
                                   filter_columns(buf, columns)
                            [] name = "trim_column_values" ->
                                   MapCells(buf, name, columns, StripCell)
                            [] OTHER ->
                                   MapCells(buf, name, columns, ExtractDigits)
          [] name = "replace_values" ->
                 IF Binds(params, {"old_values", "new_values", "columns"})
                 THEN LET Replaced(cell) ==
                              ReplaceCell(cell, Param(params, "old_values"),
                                          Param(params, "new_values"))
                      IN  MapCells(buf, name, Param(params, "columns"),
                                   Replaced)
                 ELSE Failed(buf, "TypeError")
          [] name = "remove_duplicate_rows" ->
                 CallPlain(buf, name, params, remove_duplicate_rows(buf))
          [] name = "_read" ->
                 \* the file is read once more and the result is dropped
                 CallPlain(buf, name, params, buf)
          [] name = "upload_to_db" ->
                 \* line 98 or 100: without db_config the call is a TypeError
                 Failed(buf, "TypeError")
          [] name = "df" ->
                 \* line 96: the truth value of a DataFrame is a ValueError
                 Failed(buf, "ValueError")
          [] name \in TrueAttributes ->
                 \* line 98 or 100: a str or a list is not callable
                 Failed(buf, "TypeError")
          [] name \in FalseAttributes ->
                 \* line 96: 0 is false; line 102 raises
                 Failed(buf, "UnsupportedStep")
          [] OTHER ->
                 \* line 102: raise ValueError('Unsupported cleaning step')
                 Failed(buf, "UnsupportedStep")

\* ------------------------------------------------------------------------
\* State
\* ------------------------------------------------------------------------

VARIABLES
    disk,            \* the *.yaml files of the configuration directory
    unparsable,      \* the contents (ids) that yaml.safe_load rejects
    dir_readable,    \* whether the process may list the directory
    os_name,         \* "posix" or "nt": the platform Python runs on
    runs,            \* number of calls of Pipeline.run so far
    pc,              \* position in Pipeline.run
    disk_at_start,   \* the directory as the current run found it
    globbed,         \* what glob returned to load_config_files
    config_files,    \* run(): the scheduled files
    fi,              \* run(): index of the open config_file, 0 before the first
    config,          \* run(): the jobs of the open configuration file
    ji,              \* run(): index of service in config
    q_errors,        \* run(): counter of failed jobs
    q_reportes,      \* run(): counter of processed jobs
    reportes_error,  \* run(): identities of the failed jobs
    log_written,     \* traceback files written in this run, in order
    history,         \* what this run did so far, in order: <<"processed", f, j>>
                     \* and <<"raised", f, j>> for job j of config_files[f],
                     \* <<"remove", 0, 0>>, <<"summary", 0, 0>>
    renamed,         \* the renames of this run's remove_priority_tags
    prev_files,      \* config_files of the previous run
    prev_pc,         \* where the previous run ended ("none" for the first)
    fecha_ini,       \* Downloader: the fields of the date range
    fecha_fin,
    fecha_dias,
    fecha_threshold,
    today,           \* the day in self.tz when generate_range_dates starts
    reads,           \* the values of three successive calls of today()
    range,           \* what generate_range_dates returned or raised
    namer,           \* Downloader: the fields generate_fullpath_name reads
    naming_args,     \* the arguments of a call of generate_fullpath_name
                     \* and the instant now(self.tz) returns during it
    full_path,       \* what generate_fullpath_name returned, <<>> before
    downloader,      \* the downloader whose download() runs: its class (by
                     \* registry name) and the parameters download() reads
    env,             \* the environment variables that are set
    session,         \* Downloader: pw, browser, context, page ("None"/"open")
    dpc,             \* position in download()
    effects,         \* what download() did to the outside so far, in order
    pending,         \* try/finally: the return or exception awaiting finally
    outcome,         \* how download() ended: returned, or what it raised
    folder_exists,   \* whether {root}/{service}/{sub_service} is on disk
    cleaning_steps,  \* FileProcessor: the configured steps, one entry for
                     \* each call of execute_cleaning_step, in order
    df_read,         \* the buffer as _read returned it
    df,              \* FileProcessor: the buffer
    step_i,          \* apply_cleaning_steps: index of the next step
    calls,           \* what each executed step did, in order: the step,
                     \* the buffer before and after it, what was called
                     \* and what it raised
    cleaning_error,  \* the exception that left apply_cleaning_steps
    file_path,       \* FileProcessor.read: what _read returns for each of
                     \* the paths, in the order of the paths
    read_i,          \* read(): index of the file the loop is at
    df_list,         \* read(): the buffers appended so far
    rpc,             \* position in read()
    read_error,      \* the exception that left read()
    job,             \* _process_report: the descriptor of the job
    jpc,             \* position in _process_report
    phases,          \* the phases of the job begun so far, in order, each
                     \* with whether it raised
    job_outcome,     \* how _process_report ended
    local_folder,    \* LocalFolderDownloader: the source folder, whether it
                     \* is a directory and its entries as iterdir lists them
    clock,           \* the instant now(self.tz) returns next
    lpc,             \* position in LocalFolderDownloader.download
    file_i,          \* download(): index of the entry the loop is at
    new_paths,       \* download(): the list it returns
    copies           \* the files under the folder of the downloads, each
                     \* with the entry it is a copy of

runVars == <<disk, unparsable, dir_readable, os_name, runs, pc, disk_at_start, globbed, config_files,
             fi, config, ji, q_errors, q_reportes, reportes_error,
             log_written, history, renamed, prev_files, prev_pc>>

\* What no statement of run() changes.
faultVars == <<unparsable, dir_readable>>

dateVars == <<fecha_ini, fecha_fin, fecha_dias, fecha_threshold, today,
              reads, range>>

namerVars == <<namer, naming_args, full_path>>

flowVars == <<downloader, env, session, dpc, effects, pending, outcome,
              folder_exists>>

readVars == <<file_path, read_i, df_list, rpc, read_error>>

cleanVars == <<cleaning_steps, df_read, df, step_i, calls, cleaning_error,
               readVars>>

jobVars == <<job, jpc, phases, job_outcome>>

folderVars == <<local_folder, clock, lpc, file_i, new_paths, copies>>

\* What the actions of one component leave alone.
notRunVars == <<dateVars, namerVars, flowVars, cleanVars, jobVars,
    folderVars>>

notDateVars == <<runVars, namerVars, flowVars, cleanVars, jobVars,
    folderVars>>

notNamerVars == <<runVars, dateVars, flowVars, cleanVars, jobVars,
    folderVars>>

\* download() resolves its date range on the way.
notFlowVars == <<runVars, namerVars, cleanVars, jobVars, folderVars, fecha_ini,
                 fecha_fin,
                 fecha_dias, fecha_threshold, today>>

\* The folder download reads the naming fields of the downloader.
notFolderVars == <<runVars, dateVars, namerVars, flowVars, cleanVars, jobVars>>

notJobVars == <<runVars, dateVars, namerVars, flowVars, cleanVars,
    folderVars>>

notCleanVars == <<runVars, dateVars, namerVars, flowVars, jobVars,
    folderVars>>

vars == <<runVars, dateVars, namerVars, flowVars, cleanVars, jobVars,
    folderVars>>

\* ------------------------------------------------------------------------
\* Pipeline.run
\* ------------------------------------------------------------------------

\* The directories a run may find: at most n of the stems.
Directories(n) ==
    {{[path |-> PathOf(Stems[i]), id |-> i] : i \in I} :
        I \in {J \in SUBSET (1..Len(Stems)) : Cardinality(J) <= n}}

\* The locals of run() before load_config_files has returned.
Fresh ==
    /\ globbed = <<>>
    /\ config_files = <<>>
    /\ fi = 0
    /\ config = <<>>
    /\ ji = 0
    /\ q_errors = 0
    /\ q_reportes = 0
    /\ reportes_error = <<>>
    /\ log_written = <<>>
    /\ history = <<>>
    /\ renamed = <<>>

\* The process before its first run, over one of the directories dirs.
RunStart(dirs) ==
    /\ disk \in dirs
    /\ unparsable = {}
    /\ dir_readable = TRUE
    /\ os_name \in {"posix", "nt"}
    /\ runs = 0
    /\ pc = "start"
    /\ disk_at_start = disk
    /\ prev_files = <<>>
    /\ prev_pc = "none"
    /\ Fresh

RunInit == RunStart(Directories(MaxFiles))

ListingInit == RunStart(Directories(MaxListed))

\* What glob finds: it returns nothing, and raises nothing, for a directory
\* that it cannot list.
Listable(dir, readable) == IF readable THEN dir ELSE {}

\* run(), lines 40-50: glob lists the directory in some order,
\* load_config_files schedules, the counters are cleared.
LoadConfigFiles ==
    /\ pc = "start"
    /\ runs < MaxRuns
    /\ \E l \in Listings(Listable(disk, dir_readable)) :
          /\ globbed' = l
          /\ config_files' = load_config_files(l)
    /\ runs' = runs + 1
    /\ disk_at_start' = disk
    /\ fi' = 0
    /\ pc' = "files"
    /\ UNCHANGED <<disk, os_name, config, ji, q_errors, q_reportes,
                   reportes_error, log_written, history, renamed,
                   prev_files, prev_pc>>
    /\ UNCHANGED faultVars
    /\ UNCHANGED notRunVars

\* run(), lines 52 and 56: the loop over the files is between two files, right
\* after load_config_files returned or once the jobs of the open file are
\* exhausted.
BetweenFiles ==
    \/ pc = "files"
    \/ pc = "jobs" /\ ji > Len(config)

\* run(), lines 52-54: the next scheduled file is opened and parsed; the
\* exception of yaml.safe_load for a text that is no YAML leaves run().
OpenConfigFile ==
    /\ BetweenFiles
    /\ fi < Len(config_files)
    /\ fi' = fi + 1
    /\ IF FileAt(disk, config_files[fi + 1]).id \in unparsable
       THEN /\ pc' = "aborted"
            /\ UNCHANGED <<config, ji>>
       ELSE /\ config' = DocumentOf(FileAt(disk, config_files[fi + 1]).id)
            /\ ji' = 1
            /\ pc' = "jobs"
    /\ UNCHANGED <<disk, os_name, runs, disk_at_start, globbed, config_files,
                   q_errors, q_reportes, reportes_error, log_written,
                   history, renamed, prev_files, prev_pc>>
    /\ UNCHANGED faultVars
    /\ UNCHANGED notRunVars

\* run(), lines 56-57: a job that is not enabled is passed over.
SkipService ==
    /\ pc = "jobs"
    /\ ji <= Len(config)
    /\ ~config[ji].enabled
    /\ ji' = ji + 1
    /\ UNCHANGED <<disk, os_name, runs, pc, disk_at_start, globbed,
                   config_files, fi, config, q_errors, q_reportes,
                   reportes_error, log_written, history, renamed,
                   prev_files, prev_pc>>
    /\ UNCHANGED faultVars
    /\ UNCHANGED notRunVars

\* run(), lines 58-65: _process_report returns.
ServiceProcessed ==
    /\ pc = "jobs"
    /\ ji <= Len(config)
    /\ config[ji].enabled
    /\ ~process_report_raises(config[ji], FALSE)
    /\ history' = Append(history, <<"processed", fi, ji>>)
    /\ q_reportes' = q_reportes + 1
    /\ ji' = ji + 1
    /\ UNCHANGED <<disk, os_name, runs, pc, disk_at_start, globbed,
                   config_files, fi, config, q_errors, reportes_error,
                   log_written, renamed, prev_files, prev_pc>>
    /\ UNCHANGED faultVars
    /\ UNCHANGED notRunVars

\* run(), lines 58-60 and 66-73: _process_report raises and the except
\* clause runs. The clause counts the error first; the subscripts of the
\* next statement raise KeyError for a descriptor without its identity keys,
\* and that exception leaves run().
ServiceFailed ==
    /\ pc = "jobs"
    /\ ji <= Len(config)
    /\ config[ji].enabled
    /\ \E io_fails \in BOOLEAN : process_report_raises(config[ji], io_fails)
    /\ history' = Append(history, <<"raised", fi, ji>>)
    /\ q_errors' = q_errors + 1
    /\ IF handler_raises(config[ji])
       THEN /\ pc' = "aborted"
            /\ UNCHANGED <<reportes_error, log_written, ji>>
       ELSE /\ reportes_error' = Append(reportes_error, Identity(config[ji]))
            /\ log_written' = Append(log_written, LogFileName(config[ji]))
            /\ ji' = ji + 1
            /\ pc' = pc
    /\ UNCHANGED <<disk, os_name, runs, disk_at_start, globbed, config_files,
                   fi, config, q_reportes, renamed, prev_files, prev_pc>>
    /\ UNCHANGED faultVars
    /\ UNCHANGED notRunVars

\* run(), line 76: the files are exhausted and remove_priority_tags runs; an
\* exception of os.rename leaves run().
RemovePriorityTags ==
    /\ BetweenFiles
    /\ fi = Len(config_files)
    /\ LET r == remove_priority_tags(config_files, disk, os_name)
       IN  /\ disk' = r.dir
           /\ renamed' = r.renamed
           /\ pc' = IF r.raised THEN "aborted" ELSE "summary"
    /\ history' = Append(history, <<"remove", 0, 0>>)
    /\ UNCHANGED <<os_name, runs, disk_at_start, globbed, config_files, fi,
                   config, ji, q_errors, q_reportes, reportes_error,
                   log_written, prev_files, prev_pc>>
    /\ UNCHANGED faultVars
    /\ UNCHANGED notRunVars

\* run(), lines 78-84: the summary is logged and run() returns.
PrintSummary ==
    /\ pc = "summary"
    /\ history' = Append(history, <<"summary", 0, 0>>)
    /\ pc' = "done"
    /\ UNCHANGED <<disk, os_name, runs, disk_at_start, globbed, config_files,
                   fi, config, ji, q_errors, q_reportes, reportes_error,
                   log_written, renamed, prev_files, prev_pc>>
    /\ UNCHANGED faultVars
    /\ UNCHANGED notRunVars

\* The process has ended; main() is started again later.
NextRun ==
    /\ pc \in {"done", "aborted"}
    /\ runs < MaxRuns
    /\ prev_files' = config_files
    /\ prev_pc' = pc
    /\ pc' = "start"
    /\ disk_at_start' = disk
    /\ globbed' = <<>>
    /\ config_files' = <<>>
    /\ fi' = 0
    /\ config' = <<>>
    /\ ji' = 0
    /\ q_errors' = 0
    /\ q_reportes' = 0
    /\ reportes_error' = <<>>
    /\ log_written' = <<>>
    /\ history' = <<>>
    /\ renamed' = <<>>
    /\ UNCHANGED <<disk, os_name, runs>>
    /\ UNCHANGED faultVars
    /\ UNCHANGED notRunVars

\* ------------------------------------------------------------------------
\* A downloader resolving its date range
\* ------------------------------------------------------------------------

\* The first day on which the model calls generate_range_dates.
FirstDay == MkDateTime(2023, 12, 28)

\* The days the clock may show.
ClockValues == {subtract_days(FirstDay, 0 - n) : n \in 0..ClockDays}

\* The texts of fecha_ini and fecha_fin: three days, and a day that the
\* calendar does not have.
DateTexts == {<<2023, 12, 31>>, <<2024, 1, 15>>, <<2024, 3, 10>>,
              <<2024, 2, 30>>}

DateFields == {NoField} \cup {TextField(t) : t \in DateTexts}

DiasFields == {NoField} \cup {IntField(n) : n \in -1..MaxDias}

ThresholdFields ==
    {NoField, TextField("5")} \cup {IntField(n) : n \in {0, 1, 5, 31}}

NoRange == [raised |-> FALSE, start |-> FirstDay, end |-> FirstDay]

\* No downloader is resolving dates.
DatesIdle ==
    /\ fecha_ini = NoField
    /\ fecha_fin = NoField
    /\ fecha_dias = NoField
    /\ fecha_threshold = NoField
    /\ today = FirstDay
    /\ reads = <<>>
    /\ range = NoRange

\* No pipeline is running.
RunIdle ==
    /\ disk = {}
    /\ unparsable = {}
    /\ dir_readable = TRUE
    /\ os_name = "posix"
    /\ runs = 0
    /\ pc = "start"
    /\ disk_at_start = {}
    /\ prev_files = <<>>
    /\ prev_pc = "none"
    /\ Fresh

\* The values three successive calls of today() may return when the first
\* returns t: midnight may pass between two calls.
TodayReads(t) ==
    {<<t, t, t>>, <<t, t, NextDay(t)>>, <<t, NextDay(t), NextDay(t)>>}

\* One call of generate_range_dates.
GenerateRangeDates ==
    /\ reads = <<>>
    /\ \E r \in TodayReads(today) :
          /\ reads' = r
          /\ range' = generate_range_dates(fecha_ini, fecha_fin, fecha_dias,
                                           fecha_threshold, r[1], r[2], r[3])
    /\ UNCHANGED <<fecha_ini, fecha_fin, fecha_dias, fecha_threshold, today>>
    /\ UNCHANGED notDateVars

\* ------------------------------------------------------------------------
\* A downloader naming a file
\* ------------------------------------------------------------------------

\* The names a component may have: empty, or one letter.
DownloaderNames == {<<>>, <<"q">>}

OriginalNames == {<<>>, <<"f">>}

\* The extension of the produced file; a file without suffix has none.
Extensions == {<<>>, <<"c", "s", "v">>}

Instants == {MkInstant(2024, 3, 10, 9, 5, 7),
             MkInstant(2023, 12, 31, 23, 59, 59)}

\* Downloader.__init__, lines 35-38 and 46-49.
Namers ==
    [root_download_dir   : {<<"d", "a", "t", "a">>},
     service             : {<<"s">>},
     sub_service         : {<<"t">>},
     downloader_name     : DownloaderNames,
     add_original_name   : BOOLEAN,
     add_downloader_name : BOOLEAN,
     add_timestamp       : BOOLEAN,
     add_full_timestamp  : BOOLEAN]

NamingArgs ==
    [extension : Extensions, original_filename : OriginalNames, now : Instants]

\* No downloader is naming a file.
NamerIdle ==
    /\ namer = [root_download_dir |-> <<"d", "a", "t", "a">>,
                service |-> <<"s">>, sub_service |-> <<"t">>,
                downloader_name |-> <<"q">>,
                add_original_name |-> FALSE, add_downloader_name |-> TRUE,
                add_timestamp |-> TRUE, add_full_timestamp |-> FALSE]
    /\ naming_args = [extension |-> <<>>, original_filename |-> <<>>,
                      now |-> MkInstant(2024, 3, 10, 9, 5, 7)]
    /\ full_path = <<>>

\* One call of generate_fullpath_name.
GenerateFullpathName ==
    /\ full_path = <<>>
    /\ full_path' = generate_fullpath_name(namer, naming_args.extension,
                                           naming_args.original_filename,
                                           naming_args.now)
    /\ UNCHANGED <<namer, naming_args>>
    /\ UNCHANGED notNamerVars

\* ------------------------------------------------------------------------
\* The acquisition flows: download() of the six downloader classes
\* ------------------------------------------------------------------------

\* The environment variables the capabilities read with getenv.
EnvVars == {"QUALTRICS_URL", "INTRANET_BASE_URL", "INTERNALDASH_URL",
            "SQL_ENGINE_STRING"}

\* Downloader.__init__, lines 31-34, and close_pw, lines 88-91.
Closed == [pw |-> "None", browser |-> "None", context |-> "None",
           page |-> "None"]

\* The handles start_pw sets, in the order it sets them (lines 68-71).
Handles == <<"pw", "browser", "context", "page">>

\* The session after the first n assignments of start_pw.
OpenedUpTo(n) ==
    [h \in {"pw", "browser", "context", "page"} |->
        IF \E k \in 1..n : Handles[k] = h THEN "open" ELSE "None"]

\* How download() stands: running, returned, or raised an exception of
\* class error at the step at.
Running          == [status |-> "running", error |-> "", at |-> ""]
DownloadReturned == [status |-> "returned", error |-> "", at |-> ""]
Raised(e, where) == [status |-> "raised", error |-> e, at |-> where]

\* A downloader by the registry name of its class, with the parameters its
\* download() reads: tipo_reporte (internaldash), whether local_fullpath is
\* there (localpath, localfolder), whether date_custom_label is given
\* (qualtrics), and trace_pw.
Downloader(name, tipo, there, label, trace) ==
    [name |-> name, tipo_reporte |-> tipo, exists |-> there,
     date_custom_label |-> label, trace_pw |-> trace]

Downloaders ==
    {Downloader("qualtrics", "fijo", TRUE, l, t) : l, t \in BOOLEAN}
    \cup {Downloader("qualtricsSurveyData", "fijo", TRUE, FALSE, t) :
             t \in BOOLEAN}
    \cup {Downloader("feedbackIntranet", "fijo", TRUE, FALSE, t) :
             t \in BOOLEAN}
    \cup {Downloader("internaldash", k, TRUE, FALSE, FALSE) :
             k \in {"fijo", "dinamico", "mensual"}}
    \cup {Downloader(n, "fijo", e, FALSE, FALSE) :
             n \in {"localpath", "localfolder"}, e \in BOOLEAN}

\* No download() is running.
FlowIdle ==
    /\ downloader = Downloader("localpath", "fijo", TRUE, FALSE, FALSE)
    /\ env = EnvVars
    /\ session = Closed
    /\ folder_exists = FALSE
    /\ dpc = "idle"
    /\ effects = <<>>
    /\ pending = Running
    /\ outcome = Running

\* generate_range_dates as download() calls it, within one day.
ResolveDates ==
    generate_range_dates(fecha_ini, fecha_fin, fecha_dias, fecha_threshold,
                         today, today, today)

\* start_pw, lines 68-73, called at the position from: it sets the four
\* handles and goes on at the position to, or one of its calls raises after
\* n handles are set (tracing.start, the last call, only runs with trace_pw).
StartPw(from, to) ==
    /\ dpc = from
    /\ \/ /\ session' = OpenedUpTo(4)
          /\ effects' = Append(effects, "start_pw")
          /\ dpc' = to
          /\ UNCHANGED outcome
       \/ \E n \in 0..4 :
             /\ n = 4 => downloader.trace_pw
             /\ session' = OpenedUpTo(n)
             /\ effects' = IF n >= 1 THEN Append(effects, "start_pw")
                           ELSE effects
             /\ outcome' = Raised("PlaywrightError", "start_pw")
             /\ dpc' = "done"
    /\ UNCHANGED <<downloader, env, pending, reads, range>>
    /\ UNCHANGED folder_exists
    /\ UNCHANGED notFlowVars

\* close_pw, lines 82-91: with a browser, tracing is stopped when trace_pw
\* is set, which writes trace/trace.zip under the folder of the downloads
\* or raises, and then everything is closed and set to None.
close_pw(sess, trace_pw, stop_raises) ==
    IF sess.browser = "open"
    THEN IF trace_pw /\ stop_raises
         THEN [session |-> sess, raised |-> TRUE, written |-> <<>>]
         ELSE [session |-> Closed, raised |-> FALSE,
               written |-> IF trace_pw THEN <<"trace">> ELSE <<>>]
    ELSE [session |-> sess, raised |-> FALSE, written |-> <<>>]

IsQualtrics == downloader.name \in {"qualtrics", "qualtricsSurveyData"}

\* qualtrics, lines 30-32, and qualtricsSurveyData, lines 14-16: getenv
\* without a test of its result, then start_pw, before the try statement.
QualtricsStartPw ==
    /\ IsQualtrics
    /\ StartPw("download", "login")

\* An exception raised inside the try statement: the finally clause is next.
ToFinally(e, where) ==
    /\ pending' = Raised(e, where)
    /\ dpc' = "logout"

\* qualtrics, lines 35-40, and qualtricsSurveyData, lines 19-24: the login.
\* Without QUALTRICS_URL the address is 'None/login' and goto raises; with it
\* the requests are sent, and a wait may time out.
QualtricsLogin ==
    /\ dpc = "login"
    /\ IF "QUALTRICS_URL" \notin env
       THEN /\ ToFinally("PlaywrightError", "login")
            /\ UNCHANGED effects
       ELSE /\ effects' = Append(effects, "request")
            /\ \/ /\ dpc' = IF downloader.name = "qualtrics"
                            THEN "language" ELSE "export"
                  /\ UNCHANGED pending
               \/ ToFinally("PlaywrightError", "login")
    /\ UNCHANGED <<downloader, env, session, outcome, reads, range>>
    /\ UNCHANGED folder_exists
    /\ UNCHANGED notFlowVars

\* qualtrics, lines 42-58: the language of the interface is read off the
\* page; a page in neither language raises ValueError.
QualtricsLanguage ==
    /\ dpc = "language"
    /\ \/ /\ dpc' = "dates"
          /\ UNCHANGED pending
       \/ ToFinally("ValueError", "language")
    /\ UNCHANGED <<downloader, env, session, effects, outcome, reads, range>>
    /\ UNCHANGED folder_exists
    /\ UNCHANGED notFlowVars

\* qualtrics, lines 60-71: the dashboard is opened and, with a
\* date_custom_label, the date range is resolved and filled in.
QualtricsDates ==
    /\ dpc = "dates"
    /\ effects' = Append(effects, "request")
    /\ IF downloader.date_custom_label
       THEN /\ reads' = <<today, today, today>>
            /\ range' = ResolveDates
            /\ IF ResolveDates.raised
               THEN ToFinally("ValueError", "dates")
               ELSE \/ dpc' = "export" /\ UNCHANGED pending
                    \/ ToFinally("PlaywrightError", "dates")
       ELSE /\ UNCHANGED <<reads, range>>
            /\ \/ dpc' = "export" /\ UNCHANGED pending
               \/ ToFinally("PlaywrightError", "dates")
    /\ UNCHANGED <<downloader, env, session, outcome>>
    /\ UNCHANGED folder_exists
    /\ UNCHANGED notFlowVars

\* qualtrics, lines 73-109, and qualtricsSurveyData, lines 26-65: the export
\* is requested, the download is saved (save_as, which makes the folder of
\* its path when it is missing) and its path is the return value.
QualtricsExport ==
    /\ dpc = "export"
    /\ \/ /\ effects' = Append(effects, "save")
          /\ folder_exists' = TRUE
          /\ pending' = DownloadReturned
          /\ dpc' = "logout"
       \/ /\ ToFinally("PlaywrightError", "export")
          /\ UNCHANGED <<effects, folder_exists>>
    /\ UNCHANGED <<downloader, env, session, outcome, reads, range>>
    /\ UNCHANGED notFlowVars

\* The finally clause, qualtrics lines 112-113 and qualtricsSurveyData lines
\* 68-69: the logout navigation. An exception raised here leaves download()
\* at once, in place of what was pending.
QualtricsLogout ==
    /\ dpc = "logout"
    /\ IF "QUALTRICS_URL" \notin env
       THEN /\ outcome' = Raised("PlaywrightError", "logout")
            /\ dpc' = "done"
            /\ UNCHANGED effects
       ELSE /\ effects' = Append(effects, "request")
            /\ \/ /\ dpc' = "close_pw"
                  /\ UNCHANGED outcome
               \/ /\ outcome' = Raised("PlaywrightError", "logout")
                  /\ dpc' = "done"
    /\ UNCHANGED <<downloader, env, session, pending, reads, range>>
    /\ UNCHANGED folder_exists
    /\ UNCHANGED notFlowVars

\* The finally clause, qualtrics line 114 and qualtricsSurveyData line 70:
\* close_pw, and then the pending return or exception.
QualtricsClosePw ==
    /\ dpc = "close_pw"
    /\ \E stop_raises \in BOOLEAN :
          LET r == close_pw(session, downloader.trace_pw, stop_raises)
          IN  /\ session' = r.session
              /\ outcome' = IF r.raised
                            THEN Raised("PlaywrightError", "close_pw")
                            ELSE pending
              /\ effects' = IF r.raised THEN effects
                            ELSE effects \o r.written \o <<"close_pw">>
              /\ folder_exists' = (folder_exists \/ r.written # <<>>)
    /\ dpc' = "done"
    /\ UNCHANGED <<downloader, env, pending, reads, range>>
    /\ UNCHANGED notFlowVars

\* download() ends at once with the exception e raised at the step where.
Leave(e, where) ==
    /\ outcome' = Raised(e, where)
    /\ dpc' = "done"

\* feedbackIntranet, lines 14-17: getenv without a test of its result, then
\* the date range.
FeedbackDates ==
    /\ dpc = "download"
    /\ downloader.name = "feedbackIntranet"
    /\ reads' = <<today, today, today>>
    /\ range' = ResolveDates
    /\ IF ResolveDates.raised
       THEN Leave("ValueError", "dates")
       ELSE dpc' = "start_pw" /\ UNCHANGED outcome
    /\ UNCHANGED <<downloader, env, session, effects, pending>>
    /\ UNCHANGED folder_exists
    /\ UNCHANGED notFlowVars

\* feedbackIntranet, line 19.
FeedbackStartPw ==
    /\ downloader.name = "feedbackIntranet"
    /\ StartPw("start_pw", "browse")

\* feedbackIntranet, lines 21-54: login, search, export and save, with no
\* try statement and no call of close_pw. Without INTRANET_BASE_URL the
\* first address is 'None/WebIntranetPublico/Default.aspx' and goto raises.
FeedbackBrowse ==
    /\ dpc = "browse"
    /\ IF "INTRANET_BASE_URL" \notin env
       THEN /\ Leave("PlaywrightError", "login")
            /\ UNCHANGED <<effects, folder_exists>>
       ELSE \/ /\ effects' = effects \o <<"request", "save">>
               /\ folder_exists' = TRUE
               /\ outcome' = DownloadReturned
               /\ dpc' = "done"
            \/ /\ effects' = Append(effects, "request")
               /\ Leave("PlaywrightError", "browse")
               /\ UNCHANGED folder_exists
    /\ UNCHANGED <<downloader, env, session, pending, reads, range>>
    /\ UNCHANGED notFlowVars

\* internaldash, lines 18-38: tipo_reporte is tested, the date range is
\* resolved, INTERNALDASH_URL is read and tested, the address is built.
InternalDashPrepare ==
    /\ dpc = "download"
    /\ downloader.name = "internaldash"
    /\ IF downloader.tipo_reporte \notin {"fijo", "dinamico"}
       THEN /\ Leave("ValueError", "tipo_reporte")
            /\ UNCHANGED <<reads, range>>
       ELSE /\ reads' = <<today, today, today>>
            /\ range' = ResolveDates
            /\ IF ResolveDates.raised
               THEN Leave("ValueError", "dates")
               ELSE IF "INTERNALDASH_URL" \notin env
               THEN Leave("ValueError", "getenv")
               ELSE dpc' = "request" /\ UNCHANGED outcome
    /\ UNCHANGED <<downloader, env, session, effects, pending>>
    /\ UNCHANGED folder_exists
    /\ UNCHANGED notFlowVars

\* internaldash, lines 40-58: the request is sent, the folder is made
\* (makedirs with exist_ok, line 45), the table of the answer is read and
\* written as CSV.
InternalDashRequest ==
    /\ dpc = "request"
    /\ \/ /\ effects' = effects \o <<"request", "makedirs", "save">>
          /\ folder_exists' = TRUE
          /\ outcome' = DownloadReturned
          /\ dpc' = "done"
       \/ /\ effects' = effects \o <<"request", "makedirs">>
          /\ folder_exists' = TRUE
          /\ Leave("ParseError", "read_html")
       \/ /\ effects' = Append(effects, "request")
          /\ Leave("RequestError", "request")
          /\ UNCHANGED folder_exists
    /\ UNCHANGED <<downloader, env, session, pending, reads, range>>
    /\ UNCHANGED notFlowVars

\* localpath, lines 14-27, and localfolder, lines 15-33: the source is
\* tested first, the folder is made (makedirs with exist_ok), and the
\* source is copied, which may fail.
LocalDownload ==
    /\ dpc = "download"
    /\ downloader.name \in {"localpath", "localfolder"}
    /\ IF ~downloader.exists
       THEN /\ Leave("FileNotFoundError", "exists")
            /\ UNCHANGED <<effects, folder_exists>>
       ELSE /\ folder_exists' = TRUE
            /\ \/ /\ effects' = effects \o <<"makedirs", "save">>
                  /\ outcome' = DownloadReturned
                  /\ dpc' = "done"
               \/ /\ effects' = Append(effects, "makedirs")
                  /\ Leave("OSError", "copy")
    /\ UNCHANGED <<downloader, env, session, pending, reads, range>>
    /\ UNCHANGED notFlowVars

\* ------------------------------------------------------------------------
\* A processor cleaning its buffer: FileProcessor.apply_cleaning_steps
\* ------------------------------------------------------------------------

\* The longest list of cleaning steps.
MaxSteps == 3

\* The steps a configuration may name: header operations with and without
\* their parameter, names of other members of the processor, and a name of
\* nothing.
CleaningSteps ==
    {Step(n, NoParams) :
        n \in HeaderOperations \cup OtherMethods
              \cup {"df", "file_path", "skip_rows", "foo"}}
    \cup {Step("truncate_column_names", << <<"length", 2>> >>)}

StepLists == UNION {[1..n -> CleaningSteps] : n \in 0..MaxSteps}

\* The buffers _read returns: headers with blanks around and within, a line
\* break, an accent and special characters; one row of cells.
FramesRead ==
    {Frame(<< <<" ", "E", "d", "a", "d", " ", " ">> >>, << << <<"1">> >> >>),
     Frame(<< <<"a", " ", " ", "b", "?">>, <<"é", "\n", "d", "&">> >>,
           << << <<"1">>, <<"2">> >> >>)}

\* No cleaning is under way.
CleanIdle ==
    /\ cleaning_steps = <<>>
    /\ df_read = Frame(<<>>, <<>>)
    /\ df = df_read
    /\ step_i = 1
    /\ calls = <<>>
    /\ cleaning_error = "none"
    /\ file_path = <<>>
    /\ read_i = 0
    /\ df_list = <<>>
    /\ rpc = "idle"
    /\ read_error = "none"

\* One turn of the loop of apply_cleaning_steps, lines 81-86: the next
\* step is executed, and its exception leaves the loop.
ExecuteCleaningStep ==
    /\ rpc = "cleaning"
    /\ step_i <= Len(cleaning_steps)
    /\ cleaning_error = "none"
    /\ LET step == cleaning_steps[step_i]
           r == execute_cleaning_step(df, step)
       IN  /\ df' = r.df
           /\ calls' = Append(calls, [name |-> step.name,
                                      params |-> step.params,
                                      before |-> df,
                                      after |-> r.df,
                                      called |-> r.called,
                                      error |-> r.error])
           /\ cleaning_error' = r.error
           /\ step_i' = IF r.error = "none" THEN step_i + 1 ELSE step_i
    /\ UNCHANGED <<cleaning_steps, df_read, readVars>>
    /\ UNCHANGED notCleanVars

\* ------------------------------------------------------------------------
\* Steps that name columns
\* ------------------------------------------------------------------------

\* The longest list of steps that name columns.
MaxColumnSteps == 2

ColA == <<"a">>
ColB == <<"b">>
ColZ == <<"z">>

\* A buffer with the columns a and b: cells with blanks around, with
\* digits among letters, without a digit, and one that is an old value.
ColumnFrames ==
    {Frame(<<ColA, ColB>>,
           << <<(<<" ", "x", "1", " ">>), <<"n">> >>,
              <<(<<"n">>), <<" ", "2", "2", "y", "3">> >> >>)}

\* What a step may give as columns: names of the buffer, the name z that
\* the buffer does not have, alone, as a text, and among the others.
ColumnParams ==
    {TextOf(ColA), TextOf(ColZ), ListOf(<<ColZ>>), ListOf(<<ColA, ColZ>>),
     ListOf(<<ColZ, ColB>>), ListOf(<<ColB, ColA>>)}

OldValues == << <<"n">>, <<"y">> >>
NewValues == << <<"N", "O">>, <<"S", "I">> >>

ColumnSteps ==
    {Step(n, << <<"columns", c>> >>) :
        n \in {"ignore_columns", "filter_columns", "trim_column_values",
               "only_numbers_columns"},
        c \in ColumnParams}
    \cup {Step("replace_values", << <<"old_values", OldValues>>,
                                    <<"new_values", NewValues>>,
                                    <<"columns", c>> >>) :
             c \in ColumnParams}

ColumnStepLists == UNION {[1..n -> ColumnSteps] : n \in 0..MaxColumnSteps}

\* ------------------------------------------------------------------------
\* Reading several files: FileProcessor.read
\* ------------------------------------------------------------------------

\* The most paths a processor is given, and its longest list of steps.
MaxPaths == 2
MaxReadSteps == 2

\* What _read returns for a path: a file with a row twice, a file that
\* shares a row with it, and a file with one more column.
FilesRead ==
    {Frame(<<ColA>>, << <<(<<"1">>)>>, <<(<<"1">>)>> >>),
     Frame(<<ColA>>, << <<(<<"1">>)>>, <<(<<"2">>)>> >>),
     Frame(<<ColA, ColB>>, << <<(<<"1">>), <<"2">> >> >>)}

\* The lists of paths, by what _read returns for each: `if
\* isinstance(self.file_path, str)`, lines 64-65, makes one path a list.
FilePaths == UNION {[1..n -> FilesRead] : n \in 0..MaxPaths}

ReadSteps ==
    {Step("remove_duplicate_rows", NoParams),
     Step("normalize_column_names", NoParams),
     Step("ignore_columns", << <<"columns", ListOf(<<ColB>>)>> >>),
     Step("foo", NoParams)}

ReadStepLists == UNION {[1..n -> ReadSteps] : n \in 0..MaxReadSteps}

\* The columns of pd.concat(frames): those of the first buffer, then in
\* turn those a later buffer adds.
RECURSIVE ConcatColumns(_)
ConcatColumns(frames) ==
    IF frames = <<>> THEN <<>>
    ELSE LET before == ConcatColumns(SubSeq(frames, 1, Len(frames) - 1))
             IsNew(col) == \A k \in 1..Len(before) : before[k] # col
         IN  before \o SelectSeq(frames[Len(frames)].columns, IsNew)

\* The rows of a buffer under the columns of the concatenation: NaN under
\* a column the buffer does not have.
AlignedRows(buf, columns) ==
    [r \in 1..Len(buf.rows) |->
        [k \in 1..Len(columns) |->
            IF HasColumn(buf, columns[k])
            THEN buf.rows[r][PositionOf(buf, columns[k])]
            ELSE NA]]

RECURSIVE ConcatRows(_, _)
ConcatRows(frames, columns) ==
    IF frames = <<>> THEN <<>>
    ELSE AlignedRows(Head(frames), columns)
             \o ConcatRows(Tail(frames), columns)

\* pd.concat(df_list), line 73: the rows of the buffers one after another
\* in the order of the list.
concat(frames) ==
    Frame(ConcatColumns(frames), ConcatRows(frames, ConcatColumns(frames)))

\* Lines 67-69: the next file is read into the buffer.
ReadFile ==
    /\ rpc = "reading"
    /\ read_i < Len(file_path)
    /\ read_i' = read_i + 1
    /\ df_read' = file_path[read_i + 1]
    /\ df' = file_path[read_i + 1]
    /\ step_i' = 1
    /\ rpc' = "cleaning"
    /\ UNCHANGED <<cleaning_steps, calls, cleaning_error, file_path, df_list,
                   read_error>>
    /\ UNCHANGED notCleanVars

\* Line 71: apply_cleaning_steps has returned and the buffer is appended.
AppendFrame ==
    /\ rpc = "cleaning"
    /\ cleaning_error = "none"
    /\ step_i > Len(cleaning_steps)
    /\ df_list' = Append(df_list, df)
    /\ rpc' = "reading"
    /\ UNCHANGED <<cleaning_steps, df_read, df, step_i, calls, cleaning_error,
                   file_path, read_i, read_error>>
    /\ UNCHANGED notCleanVars

\* Line 73: the appended buffers become the buffer; pd.concat of no buffer
\* is a ValueError.
Concat ==
    /\ rpc = "reading"
    /\ read_i = Len(file_path)
    /\ IF df_list = <<>>
       THEN /\ read_error' = "ValueError"
            /\ rpc' = "raised"
            /\ df' = df
       ELSE /\ df' = concat(df_list)
            /\ rpc' = "done"
            /\ read_error' = read_error
    /\ UNCHANGED <<cleaning_steps, df_read, step_i, calls, cleaning_error,
                   file_path, read_i, df_list>>
    /\ UNCHANGED notCleanVars

\* ------------------------------------------------------------------------
\* One job in its phases: Pipeline._process_report
\* ------------------------------------------------------------------------

\* The registries of get_downloader, lines 128-135, and of get_processor,
\* lines 156-160.
DownloaderClasses ==
    {"qualtrics", "internaldash", "localpath", "qualtricsSurveyData",
     "localfolder", "feedbackIntranet"}

ProcessorClasses == {"csv", "excel", "customFormacionConsolidado"}

\* A job descriptor with its capabilities: name_d is the name under
\* 'downloader' ("None" when the mapping has no name, "absent" when the
\* descriptor has no 'downloader'), name_p the name under 'processor'
\* ("None" when there is none), up and sql tell whether 'upload' and
\* 'sql_exec' are given.
Job(ks, name_d, name_p, up, sql) ==
    [keys |-> ks, downloader |-> name_d, processor |-> name_p,
     upload |-> up, sql_exec |-> sql]

Jobs ==
    {Job(ks, d, p, up, sql) :
        ks \in {BothKeys, {"servicio"}},
        d \in {"absent", "None", "localpath", "ftp"},
        p \in {"None", "csv", "xml"},
        up \in BOOLEAN, sql \in BOOLEAN}

\* get_downloader, lines 112-141: the class, or "ValueError".
get_downloader(service) ==
    IF \/ service.downloader \in {"absent", "None"}
       \/ Missing(service, "servicio")
       \/ Missing(service, "sub_servicio")
       \/ service.downloader \notin DownloaderClasses
    THEN "ValueError"
    ELSE service.downloader

\* get_processor, lines 153-169: the class, "None", or "ValueError".
get_processor(service) ==
    IF service.processor = "None" THEN "None"
    ELSE IF service.processor \notin ProcessorClasses THEN "ValueError"
    ELSE service.processor

Began(phase)  == [phase |-> phase, raised |-> FALSE]
Broke(phase)  == [phase |-> phase, raised |-> TRUE]

\* No job is in its phases.
JobIdle ==
    /\ job = Job(BothKeys, "localpath", "None", FALSE, FALSE)
    /\ jpc = "idle"
    /\ phases = <<>>
    /\ job_outcome = "running"

\* A phase that does the work of the job: it returns and the job goes on
\* at the position to, or it raises and the exception leaves the job.
RunPhase(phase, to) ==
    \E raises \in BOOLEAN :
        IF raises
        THEN /\ phases' = Append(phases, Broke(phase))
             /\ jpc' = "left"
             /\ job_outcome' = "raised"
        ELSE /\ phases' = Append(phases, Began(phase))
             /\ jpc' = to
             /\ job_outcome' = IF to = "left" THEN "returned" ELSE job_outcome

\* Line 92.
GetDownloader ==
    /\ jpc = "get_downloader"
    /\ IF get_downloader(job) = "ValueError"
       THEN jpc' = "left" /\ job_outcome' = "ValueError"
       ELSE jpc' = "download" /\ UNCHANGED job_outcome
    /\ UNCHANGED <<job, phases>>
    /\ UNCHANGED notJobVars

\* Line 94.
Download ==
    /\ jpc = "download"
    /\ RunPhase("download", "get_processor")
    /\ UNCHANGED job
    /\ UNCHANGED notJobVars

\* Lines 96-97: without a processor the job returns.
GetProcessor ==
    /\ jpc = "get_processor"
    /\ LET processor == get_processor(job)
       IN  CASE processor = "ValueError" ->
                    jpc' = "left" /\ job_outcome' = "ValueError"
             [] processor = "None" ->
                    jpc' = "left" /\ job_outcome' = "returned"
             [] OTHER ->
                    jpc' = "read" /\ UNCHANGED job_outcome
    /\ UNCHANGED <<job, phases>>
    /\ UNCHANGED notJobVars

\* Line 99.
Read ==
    /\ jpc = "read"
    /\ RunPhase("read", "upload")
    /\ UNCHANGED job
    /\ UNCHANGED notJobVars

\* handle_upload_and_sql, lines 178-183.
UploadToDb ==
    /\ jpc = "upload"
    /\ IF job.upload
       THEN RunPhase("upload_to_db", "sql_exec")
       ELSE jpc' = "sql_exec" /\ UNCHANGED <<phases, job_outcome>>
    /\ UNCHANGED job
    /\ UNCHANGED notJobVars

\* handle_upload_and_sql, lines 185-188.
ExecuteSql ==
    /\ jpc = "sql_exec"
    /\ IF job.sql_exec
       THEN RunPhase("execute_sql", "left")
       ELSE /\ jpc' = "left"
            /\ job_outcome' = "returned"
            /\ UNCHANGED phases
    /\ UNCHANGED job
    /\ UNCHANGED notJobVars

\* ------------------------------------------------------------------------
\* Copying a folder: LocalFolderDownloader.download
\* ------------------------------------------------------------------------

\* Largest number of entries in the source folder.
MaxEntries == 2

\* An entry of the source folder: a regular file of a stem and a suffix, or
\* a subfolder.
Entry(stem, suffix, regular) ==
    [stem |-> stem, suffix |-> suffix, is_file |-> regular]

Entries ==
    {Entry(<<"f">>, <<"c", "s", "v">>, TRUE),
     Entry(<<"g">>, <<"c", "s", "v">>, TRUE),
     Entry(<<"f">>, <<"t", "x", "t">>, TRUE),
     Entry(<<"s", "u", "b">>, <<>>, FALSE)}

\* The folders local_fullpath may name: no directory, or a directory with
\* its entries in the order iterdir yields them.
LocalFolders ==
    {[is_dir |-> FALSE, entries |-> <<>>]}
    \cup {[is_dir |-> TRUE, entries |-> l] :
             l \in {q \in UNION {[1..n -> Entries] : n \in 0..MaxEntries} :
                       \A i, j \in 1..Len(q) : q[i] = q[j] => i = j}}

\* The instant one second after t, within a day.
Tick(t) ==
    IF t.sec < 59 THEN [t EXCEPT !.sec = t.sec + 1]
    ELSE IF t.mi < 59 THEN [t EXCEPT !.sec = 0, !.mi = t.mi + 1]
    ELSE [t EXCEPT !.sec = 0, !.mi = 0, !.h = t.h + 1]

FolderClocks == {MkInstant(2024, 3, 10, 9, 5, 7),
                 MkInstant(2024, 3, 10, 9, 5, 59)}

\* shutil.copy2(src, dst) into the files under the downloads folder: a file
\* that is at dst already is replaced.
copy2(files, src, dst) ==
    {c \in files : c.path # dst} \cup {[path |-> dst, source |-> src]}

\* No folder is being copied.
FolderIdle ==
    /\ local_folder = [is_dir |-> FALSE, entries |-> <<>>]
    /\ clock = MkInstant(2024, 3, 10, 9, 5, 7)
    /\ lpc = "idle"
    /\ file_i = 0
    /\ new_paths = <<>>
    /\ copies = {}

\* Lines 15-18.
CheckFolder ==
    /\ lpc = "download"
    /\ IF local_folder.is_dir
       THEN lpc' = "iterdir" /\ file_i' = 1
       ELSE lpc' = "FileNotFoundError" /\ UNCHANGED file_i
    /\ UNCHANGED <<local_folder, clock, new_paths, copies>>
    /\ UNCHANGED notFolderVars

\* Lines 19-31, one turn of the loop: an entry that is a regular file is
\* named and copied; now(self.tz) is read once for it, and time passes.
CopyEntry ==
    /\ lpc = "iterdir"
    /\ file_i <= Len(local_folder.entries)
    /\ LET file == local_folder.entries[file_i]
           new_path == generate_fullpath_name(namer, file.suffix, file.stem,
                                              clock)
       IN  IF file.is_file
           THEN /\ copies' = copy2(copies, file, new_path)
                /\ new_paths' = Append(new_paths, new_path)
                /\ clock' \in {clock, Tick(clock)}
           ELSE UNCHANGED <<copies, new_paths, clock>>
    /\ file_i' = file_i + 1
    /\ UNCHANGED <<local_folder, lpc>>
    /\ UNCHANGED notFolderVars

\* Line 33.
ReturnPaths ==
    /\ lpc = "iterdir"
    /\ file_i > Len(local_folder.entries)
    /\ lpc' = "returned"
    /\ UNCHANGED <<local_folder, clock, file_i, new_paths, copies>>
    /\ UNCHANGED notFolderVars

\* ------------------------------------------------------------------------
\* Specifications
\* ------------------------------------------------------------------------

Init ==
    RunInit /\ DatesIdle /\ NamerIdle /\ FlowIdle /\ CleanIdle /\ JobIdle
        /\ FolderIdle

Next ==
    \/ LoadConfigFiles
    \/ OpenConfigFile
    \/ SkipService
    \/ ServiceProcessed
    \/ ServiceFailed
    \/ RemovePriorityTags
    \/ PrintSummary
    \/ NextRun

\* The pipeline: runs of Pipeline.run over a configuration directory.
Spec == Init /\ [][Next]_vars

LoadInit == ListingInit /\ DatesIdle /\ NamerIdle /\ FlowIdle /\ CleanIdle
                /\ JobIdle /\ FolderIdle

LoadNext == LoadConfigFiles

\* The scheduling of one directory: glob lists it in some order and
\* load_config_files is applied to the listing.
SpecLoad == LoadInit /\ [][LoadNext]_vars

\* A run over a directory that cannot be listed, or that holds a file that
\* is no YAML.
FaultsInit ==
    /\ disk \in Directories(MaxFiles)
    /\ \/ dir_readable = TRUE /\ \E f \in disk : unparsable = {f.id}
       \/ dir_readable = FALSE /\ unparsable = {}
    /\ os_name \in {"posix", "nt"}
    /\ runs = 0
    /\ pc = "start"
    /\ disk_at_start = disk
    /\ prev_files = <<>>
    /\ prev_pc = "none"
    /\ Fresh
    /\ DatesIdle
    /\ NamerIdle
    /\ FlowIdle
    /\ CleanIdle
    /\ JobIdle
    /\ FolderIdle

\* The pipeline over faulty configuration directories.
SpecFaults == FaultsInit /\ [][Next]_vars

DatesInit ==
    /\ fecha_ini \in DateFields
    /\ fecha_fin \in DateFields
    /\ fecha_dias \in DiasFields
    /\ fecha_threshold \in ThresholdFields
    /\ today \in ClockValues
    /\ reads = <<>>
    /\ range = NoRange
    /\ RunIdle
    /\ NamerIdle
    /\ FlowIdle
    /\ CleanIdle
    /\ JobIdle
    /\ FolderIdle

DatesNext == GenerateRangeDates

\* The date-range resolution applied to every combination of its fields.
SpecDates == DatesInit /\ [][DatesNext]_vars

NamerInit ==
    /\ namer \in Namers
    /\ naming_args \in NamingArgs
    /\ full_path = <<>>
    /\ RunIdle
    /\ DatesIdle
    /\ FlowIdle
    /\ CleanIdle
    /\ JobIdle
    /\ FolderIdle

NamerNext == GenerateFullpathName

\* The file naming applied to every combination of its flags.
SpecNamer == NamerInit /\ [][NamerNext]_vars

\* A downloader of each class, with any of the environment variables set, a
\* threshold that is an integer, a text or absent, and download() not begun.
FlowInit ==
    /\ downloader \in Downloaders
    /\ env \in SUBSET EnvVars
    /\ folder_exists \in BOOLEAN
    /\ session = Closed
    /\ dpc = "download"
    /\ effects = <<>>
    /\ pending = Running
    /\ outcome = Running
    /\ fecha_ini = NoField
    /\ fecha_fin = NoField
    /\ fecha_dias = NoField
    /\ fecha_threshold \in {NoField, IntField(5), TextField("5")}
    /\ today = FirstDay
    /\ reads = <<>>
    /\ range = NoRange
    /\ RunIdle
    /\ NamerIdle
    /\ CleanIdle
    /\ JobIdle
    /\ FolderIdle

FlowNext ==
    \/ QualtricsStartPw
    \/ QualtricsLogin
    \/ QualtricsLanguage
    \/ QualtricsDates
    \/ QualtricsExport
    \/ QualtricsLogout
    \/ QualtricsClosePw
    \/ FeedbackDates
    \/ FeedbackStartPw
    \/ FeedbackBrowse
    \/ InternalDashPrepare
    \/ InternalDashRequest
    \/ LocalDownload

\* One call of download() of each downloader class.
SpecFlows == FlowInit /\ [][FlowNext]_vars

\* A processor with any list of steps, its file just read.
CleanInit ==
    /\ cleaning_steps \in StepLists
    /\ df_read \in FramesRead
    /\ df = df_read
    /\ step_i = 1
    /\ calls = <<>>
    /\ cleaning_error = "none"
    /\ file_path = <<df_read>>
    /\ read_i = 1
    /\ df_list = <<>>
    /\ rpc = "cleaning"
    /\ read_error = "none"
    /\ RunIdle
    /\ DatesIdle
    /\ NamerIdle
    /\ FlowIdle
    /\ JobIdle
    /\ FolderIdle

CleanNext == ExecuteCleaningStep

\* The cleaning steps applied to a buffer.
SpecClean == CleanInit /\ [][CleanNext]_vars

\* A processor with any list of steps that name columns, its file just
\* read.
ColumnsInit ==
    /\ cleaning_steps \in ColumnStepLists
    /\ df_read \in ColumnFrames
    /\ df = df_read
    /\ step_i = 1
    /\ calls = <<>>
    /\ cleaning_error = "none"
    /\ file_path = <<df_read>>
    /\ read_i = 1
    /\ df_list = <<>>
    /\ rpc = "cleaning"
    /\ read_error = "none"
    /\ RunIdle
    /\ DatesIdle
    /\ NamerIdle
    /\ FlowIdle
    /\ JobIdle
    /\ FolderIdle

ColumnsNext == ExecuteCleaningStep

\* The steps that name columns, applied to a buffer.
SpecColumns == ColumnsInit /\ [][ColumnsNext]_vars

\* A processor with any paths and any list of steps, read() just called.
ReadInit ==
    /\ cleaning_steps \in ReadStepLists
    /\ file_path \in FilePaths
    /\ df_read = Frame(<<>>, <<>>)
    /\ df = df_read
    /\ step_i = 1
    /\ calls = <<>>
    /\ cleaning_error = "none"
    /\ read_i = 0
    /\ df_list = <<>>
    /\ rpc = "reading"
    /\ read_error = "none"
    /\ RunIdle
    /\ DatesIdle
    /\ NamerIdle
    /\ FlowIdle
    /\ JobIdle
    /\ FolderIdle

ReadNext ==
    \/ ReadFile
    \/ ExecuteCleaningStep
    \/ AppendFrame
    \/ Concat

\* One call of read().
SpecRead == ReadInit /\ [][ReadNext]_vars

\* A job of any descriptor, about to be processed.
JobInit ==
    /\ job \in Jobs
    /\ jpc = "get_downloader"
    /\ phases = <<>>
    /\ job_outcome = "running"
    /\ RunIdle
    /\ DatesIdle
    /\ NamerIdle
    /\ FlowIdle
    /\ CleanIdle
    /\ FolderIdle

JobNext ==
    \/ GetDownloader
    \/ Download
    \/ GetProcessor
    \/ Read
    \/ UploadToDb
    \/ ExecuteSql

\* _process_report applied to a job.
SpecJob == JobInit /\ [][JobNext]_vars

\* A localfolder downloader of any naming flags before a folder.
FolderInit ==
    /\ namer \in Namers
    /\ naming_args = [extension |-> <<>>, original_filename |-> <<>>,
                      now |-> MkInstant(2024, 3, 10, 9, 5, 7)]
    /\ full_path = <<>>
    /\ local_folder \in LocalFolders
    /\ clock \in FolderClocks
    /\ lpc = "download"
    /\ file_i = 0
    /\ new_paths = <<>>
    /\ copies = {}
    /\ RunIdle
    /\ DatesIdle
    /\ FlowIdle
    /\ CleanIdle
    /\ JobIdle

FolderNext ==
    \/ CheckFolder
    \/ CopyEntry
    \/ ReturnPaths

\* The download of a local folder.
SpecFolder == FolderInit /\ [][FolderNext]_vars

\* ------------------------------------------------------------------------
\* Properties of Pipeline.run (checked under Spec)
\* ------------------------------------------------------------------------

\* The jobs of the f-th scheduled file, as the run read them.
ScheduledDocument(f) ==
    DocumentOf(FileAt(disk_at_start, config_files[f]).id)

\* The enabled jobs of the scheduled files, as <<file, job>> indices.
EnabledJobs ==
    UNION {{<<f, j>> : j \in {n \in 1..Len(ScheduledDocument(f)) :
                                  ScheduledDocument(f)[n].enabled}} :
           f \in 1..Len(config_files)}

IsJobEvent(e) == e[1] \in {"processed", "raised"}

IsRaisedEvent(e) == e[1] = "raised"

\* The jobs the run has given to _process_report so far.
JobsRun == {<<history[k][2], history[k][3]>> :
               k \in {n \in 1..Len(history) : IsJobEvent(history[n])}}

RunEnded == pc \in {"done", "aborted"}

\* The positions of the event kind in history.
EventsOf(kind) == {k \in 1..Len(history) : history[k][1] = kind}

\* C1: an exception raised while a job is processed is caught at the per-job
\* boundary and never ends the run: when the run has ended, every enabled job
\* of every scheduled file has been given to _process_report.
C1_FailureIsolation ==
    RunEnded => JobsRun = EnabledJobs

\* C2: in every run remove_priority_tags is executed exactly once, behind the
\* last job and before the summary, however many jobs failed.
C2_TagRemovalOnce ==
    RunEnded =>
        /\ Cardinality(EventsOf("remove")) = 1
        /\ \A r \in EventsOf("remove") :
              /\ \A k \in 1..Len(history) : IsJobEvent(history[k]) => k < r
              /\ \A k \in EventsOf("summary") : r < k

\* The identities of the jobs that raised, in the order of execution.
RECURSIVE RaisedIdentities(_)
RaisedIdentities(h) ==
    IF h = <<>> THEN <<>>
    ELSE IF IsRaisedEvent(Head(h))
         THEN <<Identity(ScheduledDocument(Head(h)[2])[Head(h)[3]])>>
                  \o RaisedIdentities(Tail(h))
         ELSE RaisedIdentities(Tail(h))

\* C3: at every point of the job loop and at the end of the run, q_reportes +
\* q_errors is the number of enabled jobs visited, q_errors is the length of
\* reportes_error, and reportes_error lists the identities of exactly the
\* jobs that raised, in execution order.
C3_SummaryAccounting ==
    pc # "start" =>
        /\ q_reportes + q_errors = Cardinality(JobsRun)
        /\ q_errors = Len(reportes_error)
        /\ reportes_error = RaisedIdentities(history)

\* ------------------------------------------------------------------------
\* Properties of the scheduler (checked under Spec)
\* ------------------------------------------------------------------------

\* The file name of the path starts with the tag, in any letter case.
CarriesTag(p, tag) ==
    LET b == LastSlash(p)
    IN  /\ Len(p) - b >= Len(tag)
        /\ \A k \in 1..Len(tag) : UpperChar(p[b + k]) = tag[k]

\* The rank the tags stand for: [PP]=0, [P]=1, [H]=2, no tag=3, [L]=4.
RankOfTag(p) ==
    CASE CarriesTag(p, TagPP) -> 0
      [] CarriesTag(p, TagP)  -> 1
      [] CarriesTag(p, TagH)  -> 2
      [] CarriesTag(p, TagL)  -> 4
      [] OTHER                -> 3

SetOf(seq) == {seq[k] : k \in 1..Len(seq)}

\* load_config_files has returned in the current run.
Loaded == pc # "start"

\* The files of the listing that carry no [D] tag.
NotDisabled == {p \in SetOf(globbed) : ~CarriesTag(p, TagD)}

\* C4: when a file that is not disabled starts with [PP] or [P], the
\* scheduled files are exactly the files of rank <= 1 that are not disabled;
\* when none does, they are all the files that are not disabled.
C4_PriorityFilter ==
    Loaded =>
        LET top == {p \in NotDisabled :
                       CarriesTag(p, TagPP) \/ CarriesTag(p, TagP)}
        IN  /\ SetOf(config_files) = IF top # {} THEN top ELSE NotDisabled
            /\ Len(config_files) = Cardinality(SetOf(config_files))

\* A [P] file in the directory kept the other files out of the schedule.
C4_Witness ==
    /\ pc = "files"
    /\ \E p \in SetOf(config_files) : CarriesTag(p, TagP)
    /\ \E q \in NotDisabled : RankOfTag(q) >= 2 /\ q \notin SetOf(config_files)

\* The position of a path in the listing of glob.
ListedAt(p) == CHOOSE k \in 1..Len(globbed) : globbed[k] = p

\* C5: the scheduled files are in ascending rank, and two files of the same
\* rank are in the order of the directory listing.
C5_StableRankOrder ==
    Loaded =>
        LET rank   == [k \in 1..Len(config_files) |-> RankOfTag(config_files[k])]
            listed == [k \in 1..Len(config_files) |-> ListedAt(config_files[k])]
        IN  \A i, j \in 1..Len(config_files) :
                i < j =>
                    /\ rank[i] <= rank[j]
                    /\ rank[i] = rank[j] => listed[i] < listed[j]

\* [H]a, a and [L]a are scheduled in that order though glob listed [L]a
\* first and [H]a last.
C5_Witness ==
    /\ pc = "files"
    /\ Len(config_files) = 3
    /\ [k \in 1..3 |-> RankOfTag(config_files[k])] = <<2, 3, 4>>
    /\ globbed[1] = config_files[3]
    /\ globbed[3] = config_files[1]

\* C6: a file whose name starts with [D] in any letter case is never
\* scheduled, so none of its jobs is run, and remove_priority_tags never
\* renames it: it keeps its path through every run.
C6_DisabledExcluded ==
    /\ \A p \in SetOf(config_files) : ~CarriesTag(p, TagD)
    /\ \A k \in 1..Len(history) :
          IsJobEvent(history[k]) =>
              ~CarriesTag(config_files[history[k][2]], TagD)
    /\ \A k \in 1..Len(renamed) : ~CarriesTag(renamed[k][1], TagD)
    /\ \A f \in disk_at_start :
          CarriesTag(f.path, TagD) => f \in disk

\* A second run has run jobs and ended after the first run had renamed a
\* [P] file, next to them a file tagged [d] that is still there.
C6_Witness ==
    /\ runs = 2
    /\ pc = "done"
    /\ prev_pc = "done"
    /\ \E k \in 1..Len(prev_files) :
          CarriesTag(prev_files[k], TagP) /\ prev_files[k] \notin PathsOf(disk)
    /\ \E k \in 1..Len(history) : IsJobEvent(history[k])
    /\ \E f \in disk : CarriesTag(f.path, TagD) /\ f.path # Upper(f.path)

\* The path without the first three characters of its file name.
WithoutLeadingTag(p) ==
    SubSeq(p, 1, LastSlash(p)) \o SubSeq(p, LastSlash(p) + 4, Len(p))

\* C7: after a run has completed, every scheduled file whose name starts with
\* [P] is on disk under its name without that tag and no longer under the
\* old name, and every file whose name starts with [PP] has its name.
C7_OneShotTagRemoved ==
    pc = "done" =>
        \A p \in SetOf(config_files) :
            /\ (CarriesTag(p, TagP) /\ ~CarriesTag(p, TagPP)) =>
                   /\ WithoutLeadingTag(p) \in PathsOf(disk)
                   /\ p \notin PathsOf(disk)
            /\ CarriesTag(p, TagPP) => p \in PathsOf(disk)

\* The file name of the path holds the tag [P], in any letter case.
HoldsTagP(p) == Contains(Upper(basename(p)), TagP)

\* C8: remove_priority_tags renames only files that carry a [P] tag: a path
\* without [P] that was in the directory when the run began is still there
\* when the run has ended.
C8_RemovalFrame ==
    RunEnded =>
        \A f \in disk_at_start : ~HoldsTagP(f.path) => f.path \in PathsOf(disk)

\* C9: when the previous run scheduled [P] files, no file started with [PP]
\* and the run completed, the next load_config_files finds no file of rank
\* <= 1 and returns every file that is not disabled, the files that were
\* [P] files among them, in rank order.
C9_FallThrough ==
    ( /\ Loaded
      /\ prev_pc = "done"
      /\ prev_files # <<>>
      /\ \A p \in SetOf(prev_files) : RankOfTag(p) = 1 )
    =>
        /\ \A p \in SetOf(globbed) : RankOfTag(p) > 1
        /\ SetOf(config_files) = NotDisabled
        /\ \A p \in SetOf(prev_files) :
              ~CarriesTag(WithoutLeadingTag(p), TagD)
                  => WithoutLeadingTag(p) \in SetOf(config_files)
        /\ \A i, j \in 1..Len(config_files) :
              i < j => RankOfTag(config_files[i]) <= RankOfTag(config_files[j])

\* ------------------------------------------------------------------------
\* Properties of generate_range_dates (checked under SpecDates)
\* ------------------------------------------------------------------------

\* generate_range_dates has returned a pair.
Returned == reads # <<>> /\ ~range.raised

\* C10 as stated: for every combination of the four fields for which a pair
\* is returned, start <= end.
C10_StartNotAfterEnd ==
    Returned => DayLeq(range.start, range.end)

\* The end that an explicit start is paired with: fecha_fin, or the first
\* reading of today.
ExplicitEnd ==
    IF Truthy(fecha_fin) THEN ensure_date(fecha_fin.value).value ELSE reads[1]

\* C10 as amended: without an explicit start, start <= end unless the day
\* count is negative; with an explicit start, start <= end exactly when
\* fecha_ini is not after the end it is paired with.
C10_StartNotAfterEndUnlessConfigured ==
    Returned =>
        IF Truthy(fecha_ini)
        THEN DayLeq(range.start, range.end)
                 <=> DayLeq(ensure_date(fecha_ini.value).value, ExplicitEnd)
        ELSE (Truthy(fecha_dias) => fecha_dias.value >= 0)
                 => DayLeq(range.start, range.end)

\* The threshold branch gave the first day of the previous month while
\* midnight passed between the readings of today.
C10_Witness ==
    /\ Returned
    /\ ~Truthy(fecha_ini)
    /\ ~Truthy(fecha_dias)
    /\ Truthy(fecha_threshold)
    /\ reads[1] # reads[3]
    /\ range.start.m # range.end.m
    /\ DayLeq(range.start, range.end)

\* Two values name the same calendar day.
SameDay(a, b) == a.y = b.y /\ a.m = b.m /\ a.d = b.d

\* A returned pair is the pair of the days a and b.
IsPair(r, a, b) == SameDay(r.start, a) /\ SameDay(r.end, b)

\* The first day of the calendar month before the month of t.
FirstOfPreviousMonth(t) ==
    [y |-> IF t.m = 1 THEN t.y - 1 ELSE t.y,
     m |-> IF t.m = 1 THEN 12 ELSE t.m - 1,
     d |-> 1]

FirstOfMonth(t) == [y |-> t.y, m |-> t.m, d |-> 1]

\* The pair the threshold rule gives for the day t and the threshold n.
ThresholdPair(r, t, n) ==
    IF t.d <= n
    THEN IsPair(r, FirstOfPreviousMonth(t), t)
    ELSE IsPair(r, FirstOfMonth(t), t)

\* The pair the resolution order gives for the day t: the first trigger that
\* is given decides.
ByResolutionOrder(r, t) ==
    IF fecha_ini.given /\ fecha_fin.given
    THEN IsPair(r, ensure_date(fecha_ini.value).value,
                   ensure_date(fecha_fin.value).value)
    ELSE IF fecha_ini.given
    THEN IsPair(r, ensure_date(fecha_ini.value).value, t)
    ELSE IF fecha_dias.given
    THEN IsPair(r, FromOrdinal(ToOrdinal(t) - fecha_dias.value, "Date"), t)
    ELSE IF fecha_threshold.given
    THEN ThresholdPair(r, t, fecha_threshold.value)
    ELSE IsPair(r, FromOrdinal(ToOrdinal(t) - 1, "Date"), t)

\* The days today() returned during the call.
DaysRead == {reads[k] : k \in 1..Len(reads)}

\* C11: a returned pair is the pair of the first branch whose trigger is
\* given, in the order both bounds, start only, day count, threshold,
\* default, for a day that today() returned.
C11_FirstGivenBranch ==
    Returned => \E t \in DaysRead : ByResolutionOrder(range, t)

\* C12: when fecha_dias is given and neither explicit bound is, the pair is
\* (today - fecha_dias days, today), whatever fecha_threshold is.
C12_TrailingDays ==
    (Returned /\ fecha_dias.given /\ ~fecha_ini.given /\ ~fecha_fin.given) =>
        \E t \in DaysRead :
            IsPair(range, FromOrdinal(ToOrdinal(t) - fecha_dias.value, "Date"), t)

\* C13: with an integer threshold in 1..31 and no other date field given,
\* the pair is (first day of the month before today's, today) when today's
\* day of the month is at most the threshold, and (first day of today's
\* month, today) otherwise.
C13_ThresholdDay ==
    (/\ Returned
     /\ fecha_threshold.given /\ fecha_threshold.int
     /\ fecha_threshold.value \in 1..31
     /\ ~fecha_ini.given /\ ~fecha_fin.given /\ ~fecha_dias.given) =>
        \E t \in DaysRead : ThresholdPair(range, t, fecha_threshold.value)

\* ------------------------------------------------------------------------
\* Properties of generate_fullpath_name (checked under SpecNamer)
\* ------------------------------------------------------------------------

\* generate_fullpath_name has returned.
Named == full_path # <<>>

\* The timestamp component: seconds precision when add_full_timestamp is
\* set, minute precision when only add_timestamp is, else none.
TimestampComponent ==
    IF namer.add_full_timestamp
    THEN format_datetime(naming_args.now, "yMMdd_HHmmss")
    ELSE IF namer.add_timestamp
    THEN format_datetime(naming_args.now, "yMMdd_HHmm")
    ELSE <<>>

\* The components in their fixed order, a component that is not enabled
\* being empty.
Components ==
    << IF namer.add_downloader_name THEN namer.downloader_name ELSE <<>>,
       IF namer.add_original_name THEN naming_args.original_filename
       ELSE <<>>,
       TimestampComponent >>

IsNonEmpty(c) == c # <<>>

EnabledComponents == SelectSeq(Components, IsNonEmpty)

\* The strings of seq joined by single underscores.
RECURSIVE JoinByUnderscore(_)
JoinByUnderscore(seq) ==
    IF Len(seq) = 0 THEN <<>>
    ELSE IF Len(seq) = 1 THEN seq[1]
    ELSE seq[1] \o <<"_">> \o JoinByUnderscore(Tail(seq))

\* The path {root}/{service}/{sub_service}/{base}.{extension}.
UnderFolder(base) ==
    << namer.root_download_dir, namer.service, namer.sub_service,
       base \o <<".">> \o naming_args.extension >>

\* C14: the base name is the enabled, non-empty components in the order
\* capability name, original stem, timestamp, joined by single underscores
\* with none leading or trailing, then '.' and the extension, under
\* {root}/{service}/{sub_service}/.
C14_NameComposition ==
    (Named /\ EnabledComponents # <<>>) =>
        full_path = UnderFolder(JoinByUnderscore(EnabledComponents))

\* C15: when every component is empty, by its flag or by being an empty
\* string, the result is {root}/{service}/{sub_service}/download.<ext>.
C15_DownloadFallback ==
    (Named /\ EnabledComponents = <<>>) =>
        full_path = UnderFolder(DownloadLiteral)

\* ------------------------------------------------------------------------
\* Properties of the acquisition flows (checked under SpecFlows)
\* ------------------------------------------------------------------------

\* download() has returned or raised: control is back in _process_report.
Finished == outcome.status # "running"

\* start_pw ran to its end during this call.
SessionOpened ==
    /\ \E k \in 1..Len(effects) : effects[k] = "start_pw"
    /\ outcome.at # "start_pw"

UsesSession ==
    downloader.name \in {"qualtrics", "qualtricsSurveyData", "feedbackIntranet"}

\* C16: in a flow that calls start_pw, once download() has returned or
\* raised after the session was opened, close_pw has run and pw, browser,
\* context and page are all None.
C16_SessionClosedOnExit ==
    (UsesSession /\ Finished /\ SessionOpened) =>
        /\ session = Closed
        /\ \E k \in 1..Len(effects) : effects[k] = "close_pw"

\* download() failed for a missing resource or a malformed parameter.
FailedOnConfiguration ==
    /\ outcome.status = "raised"
    /\ outcome.at \in {"exists", "tipo_reporte", "dates"}

\* Nothing was started or sent: no browser session, no network request.
NothingStarted ==
    \A k \in 1..Len(effects) : effects[k] \notin {"start_pw", "request"}

\* C17: when download() fails because its resource is absent or a
\* parameter is malformed, no browser session was started and no network
\* request was sent before.
C17_FailFast == FailedOnConfiguration => NothingStarted

\* The environment variable download() of the downloader needs.
Endpoint ==
    CASE IsQualtrics -> "QUALTRICS_URL"
      [] downloader.name = "feedbackIntranet" -> "INTRANET_BASE_URL"
      [] downloader.name = "internaldash" -> "INTERNALDASH_URL"
      [] OTHER -> "none"

\* C18: download() of a downloader whose environment variable is absent
\* ends with a ValueError, before any browser session or network request.
C18_MissingEndpoint ==
    (Finished /\ Endpoint # "none" /\ Endpoint \notin env) =>
        /\ outcome.status = "raised"
        /\ outcome.error = "ValueError"
        /\ NothingStarted

\* ------------------------------------------------------------------------
\* Properties of the cleaning steps
\* ------------------------------------------------------------------------

\* The enumeration of cleaning operations, lines 197-351.
CleaningOperations ==
    {"parse_sinona", "remove_empty_rows", "empty_asnull", "replace_values",
     "trim_column_names", "trim_column_values", "trim_all_values",
     "truncate_column_names", "remove_specialchars_from_column_names",
     "ignore_columns", "filter_columns", "only_numbers_columns",
     "normalize_column_names", "remove_duplicate_rows"}

\* C19: a step whose name is not one of the enumeration of cleaning
\* operations runs nothing and raises the unsupported-step error, also when
\* the name is that of another member of the processor.
C19_ClosedDispatch ==
    \A i \in 1..Len(calls) :
        calls[i].name \notin CleaningOperations
            => calls[i].called = "none" /\ calls[i].error = "UnsupportedStep"

\* The buffer after the first n steps of the list, each applied in turn to
\* the result of the one before.
RECURSIVE AppliedUpTo(_)
AppliedUpTo(n) ==
    IF n = 0 THEN df_read
    ELSE execute_cleaning_step(AppliedUpTo(n - 1), cleaning_steps[n]).df

Edad == <<" ", "E", "d", "a", "d", " ", " ">>

TrimThenNormalize ==
    <<Step("trim_column_names", NoParams),
      Step("normalize_column_names", NoParams)>>

ApplyOver == cleaning_error # "none" \/ step_i > Len(cleaning_steps)

\* C20: the steps are executed in the configured order; a step with a name
\* outside the enumeration raises the unsupported-step error where it
\* stands, the buffer keeps what the steps before it did, and no step after
\* it is executed. Trimming and then normalising ' Edad  ' gives EDAD.
C20_SequentialNoRollback ==
    /\ \A i \in 1..Len(calls) : calls[i].name = cleaning_steps[i].name
    /\ \A k \in 1..Len(calls) :
           cleaning_steps[k].name \notin CleaningOperations
               => /\ calls[k].error = "UnsupportedStep"
                  /\ cleaning_error = "UnsupportedStep"
                  /\ Len(calls) = k
                  /\ df = AppliedUpTo(k - 1)
    /\ (/\ ApplyOver
        /\ cleaning_steps = TrimThenNormalize
        /\ df_read.columns = <<Edad>>)
           => df.columns = << <<"E", "D", "A", "D">> >>

\* ------------------------------------------------------------------------
\* Further properties of generate_range_dates (checked under SpecDates)
\* ------------------------------------------------------------------------

\* What the resolution rules give when every reading of the clock is t.
AtOneInstant(t) ==
    generate_range_dates(fecha_ini, fecha_fin, fecha_dias, fecha_threshold,
                         t, t, t)

\* C28: the pair a call returns is the pair the resolution rules give for
\* one single value of today, also when midnight passes between the
\* readings of the clock within the call.
C28_SingleInstant ==
    reads # <<>> => \E i \in 1..3 : range = AtOneInstant(reads[i])

\* ------------------------------------------------------------------------
\* Further properties of Pipeline.run (checked under Spec)
\* ------------------------------------------------------------------------

\* The contents a directory holds.
ContentsOf(dir) == {f.id : f \in dir}

TagsRemoved == \E k \in 1..Len(history) : history[k] = <<"remove", 0, 0>>

\* C27: after remove_priority_tags the directory holds as many files as
\* the run found, and every content it found.
C27_NoFileLost ==
    TagsRemoved =>
        /\ Cardinality(disk) = Cardinality(disk_at_start)
        /\ ContentsOf(disk) = ContentsOf(disk_at_start)

\* C30: the failed jobs of a run wrote their tracebacks to files that are
\* pairwise distinct: one file for each job that failed.
C30_OneTracePerFailedJob ==
    pc \in {"summary", "done"} =>
        Cardinality({log_written[i] : i \in 1..Len(log_written)})
            = Cardinality({k \in 1..Len(history) : IsRaisedEvent(history[k])})

\* ------------------------------------------------------------------------
\* Properties of the scheduler's errors (checked under SpecFaults)
\* ------------------------------------------------------------------------

\* The run was given a directory it cannot list, or scheduled a file that
\* is no YAML.
SchedulerFault ==
    \/ ~dir_readable
    \/ \E f \in 1..Len(config_files) :
          FileAt(disk_at_start, config_files[f]).id \in unparsable

\* C25: a run over a directory that cannot be read, or with a malformed
\* file among the scheduled ones, fails, and no job of any file is executed
\* in it.
C25_SchedulerErrorsFatal ==
    (pc # "start" /\ SchedulerFault) =>
        /\ JobsRun = {}
        /\ RunEnded => pc = "aborted"

\* ------------------------------------------------------------------------
\* Properties of a job's phases (checked under SpecJob)
\* ------------------------------------------------------------------------

JobLeft == jpc = "left"

\* The job names a capability that its registry does not have.
UnknownCapability ==
    \/ job.downloader \notin DownloaderClasses \cup {"absent", "None"}
    \/ job.processor \notin ProcessorClasses \cup {"None"}

\* C23: a job that names an acquisition or a transform capability outside
\* its registry begins no phase, download() included, and ends with the
\* configuration error.
C23_ResolutionBeforeWork ==
    (jpc # "idle" /\ UnknownCapability) =>
        /\ phases = <<>>
        /\ JobLeft => job_outcome = "ValueError"

\* The phases of a job that runs to its end, in their order.
PhasesDue ==
    <<"download">>
        \o (IF job.processor # "None" THEN <<"read">> ELSE <<>>)
        \o (IF job.upload THEN <<"upload_to_db">> ELSE <<>>)
        \o (IF job.sql_exec THEN <<"execute_sql">> ELSE <<>>)

\* C24: a job that returns has run acquisition, then the transform if one
\* is configured, then the upload and the SQL execution if configured,
\* with or without a transform; and no phase begins after one has raised.
C24_PhaseOrder ==
    /\ \A i \in 1..Len(phases) - 1 : ~phases[i].raised
    /\ (JobLeft /\ job_outcome = "returned") =>
           [i \in 1..Len(phases) |-> phases[i].phase] = PhasesDue

\* ------------------------------------------------------------------------
\* Further properties of the acquisition flows (checked under SpecFlows)
\* ------------------------------------------------------------------------

\* C26: when a flow writes a produced file or the trace artifact, it has
\* made the folder of the downloads before; and making a folder that is
\* there already is no error.
C26_FolderBeforeWrite ==
    /\ \A k \in 1..Len(effects) :
           effects[k] \in {"save", "trace"}
               => \E m \in 1..(k - 1) : effects[m] = "makedirs"
    /\ outcome.at # "makedirs"

\* ------------------------------------------------------------------------
\* Properties of the folder download (checked under SpecFolder)
\* ------------------------------------------------------------------------

\* The regular files of the source folder.
RegularFiles ==
    {local_folder.entries[i] : i \in
        {n \in 1..Len(local_folder.entries) : local_folder.entries[n].is_file}}

\* C29: the download of a folder returns one path for each regular file of
\* the folder, the paths are pairwise distinct, and every file that was
\* copied is still there: no copy has been replaced by a later one.
C29_EveryFileKept ==
    lpc = "returned" =>
        /\ Len(new_paths) = Cardinality(RegularFiles)
        /\ \A i, j \in 1..Len(new_paths) : new_paths[i] = new_paths[j] => i = j
        /\ {c.source : c \in copies} = RegularFiles

\* ------------------------------------------------------------------------
\* Properties of the steps that name columns (checked under SpecColumns)
\* ------------------------------------------------------------------------

ColumnOperations ==
    {"replace_values", "trim_column_values", "ignore_columns",
     "filter_columns", "only_numbers_columns"}

\* The operations that rewrite cells and keep the columns.
CellOperations ==
    {"replace_values", "trim_column_values", "only_numbers_columns"}

\* The names a call gave as its columns.
NamesOf(call) == Param(call.params, "columns").names

NamedBy(call) == {NamesOf(call)[k] : k \in 1..Len(NamesOf(call))}

Headers(buf) == {buf.columns[i] : i \in 1..Len(buf.columns)}

\* The cells under a column, from the first row to the last.
CellsOf(buf, column) ==
    [r \in 1..Len(buf.rows) |-> buf.rows[r][PositionOf(buf, column)]]

\* What an operation that rewrites cells makes of one cell.
Processed(call, cell) ==
    CASE call.name = "trim_column_values" -> StripCell(cell)
      [] call.name = "only_numbers_columns" -> ExtractDigits(cell)
      [] call.name = "replace_values" ->
             ReplaceCell(cell, Param(call.params, "old_values"),
                         Param(call.params, "new_values"))

\* The columns an operation leaves to a buffer when the names it was given
\* that the buffer does not have count for nothing.
ColumnsLeft(call) ==
    LET IsNotNamed(col) == col \notin NamedBy(call)
        IsHeader(col) == col \in Headers(call.before)
    IN  CASE call.name = "ignore_columns" ->
                 SelectSeq(call.before.columns, IsNotNamed)
          [] call.name = "filter_columns" ->
                 SelectSeq(NamesOf(call), IsHeader)
          [] OTHER -> call.before.columns

\* C21: a call of replace_values, trim_column_values, ignore_columns,
\* filter_columns or only_numbers_columns that names a column the buffer
\* does not have raises nothing, the absent name adds and changes nothing,
\* the columns that are not named keep their cells, and the named columns
\* that are present are processed.
C21_AbsentColumnsSkipped ==
    \A i \in 1..Len(calls) :
        LET call == calls[i]
        IN  call.name \in ColumnOperations =>
                /\ call.error = "none"
                /\ call.called = call.name
                /\ call.after.columns = ColumnsLeft(call)
                /\ Len(call.after.rows) = Len(call.before.rows)
                /\ \A col \in Headers(call.after) :
                       CellsOf(call.after, col) =
                           IF call.name \in CellOperations
                              /\ col \in NamedBy(call)
                           THEN [r \in 1..Len(call.before.rows) |->
                                    Processed(call,
                                        CellsOf(call.before, col)[r])]
                           ELSE CellsOf(call.before, col)

\* A call named a column the buffer has and one it does not have, and the
\* buffer is not what it was.
C21_Witness ==
    \E i \in 1..Len(calls) :
        /\ calls[i].name \in ColumnOperations
        /\ ColZ \in NamedBy(calls[i])
        /\ ColZ \notin Headers(calls[i].before)
        /\ NamedBy(calls[i]) \cap Headers(calls[i].before) # {}
        /\ calls[i].error = "none"
        /\ calls[i].after # calls[i].before

\* ------------------------------------------------------------------------
\* Properties of read() (checked under SpecRead)
\* ------------------------------------------------------------------------

\* What the first n steps make of a buffer, each applied to the result of
\* the one before, up to the first that raises.
RECURSIVE Cleaned(_, _, _)
Cleaned(buf, steps, n) ==
    IF n = 0 THEN Done(buf, "none")
    ELSE LET sofar == Cleaned(buf, steps, n - 1)
         IN  IF sofar.error # "none" THEN sofar
             ELSE execute_cleaning_step(sofar.df, steps[n])

HasStep(name) ==
    \E k \in 1..Len(cleaning_steps) : cleaning_steps[k].name = name

\* C22: when read() has returned, the buffer is what the cleaning steps,
\* applied once, make of the concatenation in input order of what was read
\* from each path; with remove_duplicate_rows among the steps no two rows
\* of the buffer are equal, whichever files they came from.
C22_CleanedAfterConcat ==
    rpc = "done" =>
        LET whole == Cleaned(concat(file_path), cleaning_steps,
                             Len(cleaning_steps))
        IN  /\ whole.error = "none"
            /\ df = whole.df
            /\ HasStep("remove_duplicate_rows") =>
                   \A r, q \in 1..Len(df.rows) :
                       df.rows[r] = df.rows[q] => r = q

====
